---- MODULE Spec2Model ----
(***************************************************************************)
(* A model of tracing-loki's background delivery engine                    *)
(* (src/src/lib.rs: Layer::on_event, SendQueue, BackgroundTask,            *)
(* BackgroundTaskController) with the label rendering it uses              *)
(* (src/src/labels.rs) and the level table (src/src/level_map.rs).         *)
(*                                                                         *)
(* One action per operation: a producer's on_event (Submit), the           *)
(* controller's shutdown (Shutdown), the drop of every sender              *)
(* (DropSenders), one whole BackgroundTask::poll call (Poll), and the two  *)
(* things the environment does between polls: the HTTP exchange resolves   *)
(* (Respond) and the armed sleep reaches its deadline (TimerElapse).       *)
(***************************************************************************)
EXTENDS Integers, Sequences, FiniteSets, TLC

(* ---- bounds of the model ---- *)
MaxEvents == 3        \* on_event calls made by the application
MaxFailures == 2      \* HTTP exchanges that end in an error
MaxStreak == 66       \* failed exchanges in a row during a long outage
ChanCap == 2          \* capacity of the event channel (512 in event_channel)
MaxKeyLen == 2        \* longest label key the application tries
MaxEncodes == 2       \* requests encoded with one Buffer

(* ---- program constants ---- *)
BaseDelayMs == 500    \* 500u64 in backoff_time
OutageSecs == 30      \* Duration::from_secs(30)
CeilingSecs == 600    \* Duration::from_secs(600)
U64Width == 64        \* width of the shifted u64

VARIABLES
    channel,        \* mpsc queue of Option<LokiEvent>: events and the close value
    senders,        \* TRUE while a Sender (Layer or controller) is alive
    queues,         \* BackgroundTask.queues : LevelMap<SendQueue>
    backoff_count,  \* BackgroundTask.backoff_count
    backoff,        \* BackgroundTask.backoff : Option<Sleep>
    quitting,       \* BackgroundTask.quitting
    send_task,      \* BackgroundTask.send_task: "none", or the state of the future
    pc,             \* "run"; "done": poll returned Ready; "spin": poll is stuck
                    \* in its drain loop; "panic": prepare_sending panicked
    nsub,           \* events captured so far (gives each event its identity)
    accepted,       \* history: the events try_send put into the channel
    requests,       \* history: the PushRequests issued, oldest first
    results,        \* history: how the finished exchanges ended
    delays,         \* history: the delays armed since the last success
    signalled,      \* history: what shutdown() found: the ids pending in the
                    \* buckets, the number of requests issued so far, and
                    \* whether the last of them was outstanding
    response,       \* how the exchange of the finished send future ended
    labels,         \* a FormattedLabels value under construction
    builder,        \* the Builder the application configures
    added,          \* history: the (key, value) pairs added to labels so far
    returned,       \* what the last call on labels or builder was and returned
    buffer,         \* a Buffer: the bytes its two vectors hold
    messages,       \* history: the PushRequests given to buffer.encode
    body            \* the bytes that call returned

\* the state the application sets up before the engine runs
setupVars == <<labels, added, builder, returned>>
\* the state of the encoding
wireVars == <<buffer, messages, body>>
\* the state of the running engine and its environment
engineVars == <<channel, senders, queues, backoff_count, backoff, quitting,
                send_task, pc, nsub, accepted, requests, results, delays,
                signalled, response>>

vars == <<channel, senders, queues, backoff_count, backoff, quitting, send_task,
          pc, nsub, accepted, requests, results, delays, signalled, response,
          setupVars, wireVars>>

(* ---- levels (level_map.rs) ---- *)
LevelSeq == <<"trace", "debug", "info", "warn", "error">>
Levels == {LevelSeq[i] : i \in 1..Len(LevelSeq)}
level_index(level) == CHOOSE i \in 1..Len(LevelSeq) : LevelSeq[i] = level
\* the levels the modelled application logs at
InputLevels == {"info", "error"}

(* ---- labels (labels.rs) ---- *)
FormattedLabels_new == "{"
\* faulty variant: the separator is pushed even when no label was added
finish_AlwaysComma(formatted, level) ==
    formatted \o "," \o "level=\"" \o level \o "\"}"

finish(formatted, level) ==
    LET result == IF Len(formatted) > 1 THEN formatted \o "," ELSE formatted
    IN  result \o "level=\"" \o level \o "\"}"

\* a Rust String is a TLA+ string; its characters, one by one
Chars(str) == [i \in 1..Len(str) |-> SubSeq(str, i, i)]
\* the UTF-8 encoding of the characters the modelled keys are made of
Utf8 ==
    [c \in {"a", "z", "A", "Z", "_", "@", "[", "^", "{", "l", "e", "v", "s", "L",
           "h", "o", "t", "=", "\"", "i", "n", "f", "r", "}", ","} |->
        <<CASE c = "a" -> 97 [] c = "z" -> 122 [] c = "A" -> 65 [] c = "Z" -> 90
            [] c = "_" -> 95 [] c = "@" -> 64 [] c = "[" -> 91 [] c = "^" -> 94
            [] c = "{" -> 123 [] c = "l" -> 108 [] c = "e" -> 101
            [] c = "v" -> 118 [] c = "s" -> 115 [] c = "L" -> 76
            [] c = "h" -> 104 [] c = "o" -> 111 [] c = "t" -> 116
            [] c = "=" -> 61 [] c = "\"" -> 34 [] c = "i" -> 105
            [] c = "n" -> 110 [] c = "f" -> 102 [] c = "r" -> 114
            [] c = "}" -> 125 [] c = "," -> 44>>]
    @@ [c \in {"é"} |-> <<195, 169>>]
\* str.bytes()
RECURSIVE Bytes(_)
Bytes(str) ==
    IF str = "" THEN <<>> ELSE Utf8[SubSeq(str, 1, 1)] \o Bytes(SubSeq(str, 2, Len(str)))
\* str[i..].chars().next(), i counted in bytes from 0: the character that
\* starts at that byte
CharAtByte(str, i) ==
    LET k == CHOOSE k \in 1..Len(str) : Len(Bytes(SubSeq(str, 1, k - 1))) = i
    IN  SubSeq(str, k, k)

\* the values of Result<_, Error> the label operations return
Ok(label) == [kind |-> "Ok", label |-> label, char |-> ""]
InvalidLabelCharacter(label, c) ==
    [kind |-> "InvalidLabelCharacter", label |-> label, char |-> c]
ReservedLabelLevel == [kind |-> "ReservedLabelLevel", label |-> "", char |-> ""]
DuplicateLabel(key) == [kind |-> "DuplicateLabel", label |-> key, char |-> ""]

\* faulty variant: one range from A to z, which takes the characters between
\* Z and a as well
AllowedByte_OneRange(b) == b \in 65..122

\* the match of lines 93-94: a byte of A..=Z, of a..=z, or the underscore
AllowedByte(b) == b \in 65..90 \/ b \in 97..122 \/ b = 95

\* ValidatedLabel::new
ValidatedLabel_new(label) ==
    LET bytes == Bytes(label)
        bad   == {i \in 1..Len(bytes) : ~AllowedByte(bytes[i])}
    IN  IF bad # {}
        THEN LET i == CHOOSE i \in bad : \A j \in bad : i <= j
             IN  InvalidLabelCharacter(label, CharAtByte(label, i - 1))
        ELSE IF label = "level" THEN ReservedLabelLevel
        ELSE Ok(label)

\* {:?} of a str: the text between double quotes, a double quote and a
\* backslash written with a backslash before them
EscapeDebug(c) == IF c = "\"" THEN "\\\"" ELSE IF c = "\\" THEN "\\\\" ELSE c
RECURSIVE DebugBody(_)
DebugBody(str) ==
    IF str = "" THEN ""
    ELSE EscapeDebug(SubSeq(str, 1, 1)) \o DebugBody(SubSeq(str, 2, Len(str)))
Debug(str) == "\"" \o DebugBody(str) \o "\""

\* a call and what it returned
Call(name, key, value, result) ==
    [call |-> name, key |-> key, value |-> value, result |-> result]
NoCall == Call("none", "", "", Ok(""))

\* FormattedLabels::new(), both fields
NoLabels == [seen_keys |-> {}, formatted |-> FormattedLabels_new]

\* faulty variant: the separator is written before the first label too
add_AlwaysSep(fl, key, value) ==
    LET old_len == Len(fl.formatted)
        written == fl.formatted \o "," \o key \o "=" \o Debug(value)
    IN  IF key \in fl.seen_keys
        THEN [labels |-> [seen_keys |-> fl.seen_keys,
                          formatted |-> SubSeq(written, 1, old_len)],
              result |-> DuplicateLabel(key)]
        ELSE [labels |-> [seen_keys |-> fl.seen_keys \cup {key},
                          formatted |-> written],
              result |-> Ok(key)]

\* faulty variant: the text written for a duplicate is not cut back
add_NoTruncate(fl, key, value) ==
    LET sep     == IF Len(fl.formatted) <= 1 THEN "" ELSE ","
        written == fl.formatted \o sep \o key \o "=" \o Debug(value)
    IN  IF key \in fl.seen_keys
        THEN [labels |-> [seen_keys |-> fl.seen_keys, formatted |-> written],
              result |-> DuplicateLabel(key)]
        ELSE [labels |-> [seen_keys |-> fl.seen_keys \cup {key},
                          formatted |-> written],
              result |-> Ok(key)]

\* FormattedLabels::add: the labels as the call leaves them and what it
\* returns. The text is written first and cut back to old_len for a duplicate.
add(fl, key, value) ==
    LET old_len == Len(fl.formatted)
        sep     == IF Len(fl.formatted) <= 1 THEN "" ELSE ","
        written == fl.formatted \o sep \o key \o "=" \o Debug(value)
    IN  IF key \in fl.seen_keys
        THEN [labels |-> [seen_keys |-> fl.seen_keys,
                          formatted |-> SubSeq(written, 1, old_len)],
              result |-> DuplicateLabel(key)]
        ELSE [labels |-> [seen_keys |-> fl.seen_keys \cup {key},
                          formatted |-> written],
              result |-> Ok(key)]

\* FormattedLabels::contains
contains(fl, key) == key \in fl.seen_keys

(* ---- Builder (builder.rs), built with the dynamic-labels feature ---- *)
\* builder(): no labels yet, and the Content-Type header in the header map, a
\* set of <<name, value>> with one value for a name (extra fields are left out)
Builder_new ==
    [labels |-> NoLabels, dynamic_labels |-> {},
     http_headers |-> {<<"content-type", "application/x-snappy">>}]

\* faulty variant: the dynamic labels are not looked at
Builder_label_StaticOnly(b, key, value) ==
    LET label == ValidatedLabel_new(key)
        r     == add(b.labels, key, value)
    IN  IF label.kind # "Ok" THEN [builder |-> <<>>, result |-> label]
        ELSE IF r.result.kind # "Ok"
        THEN [builder |-> <<>>, result |-> r.result]
        ELSE [builder |-> <<[b EXCEPT !.labels = r.labels]>>, result |-> Ok(key)]

\* Builder::label takes the builder by value: it gives back the builder (a
\* one-element sequence) or drops it and gives an error (the empty sequence)
Builder_label(b, key, value) ==
    LET label == ValidatedLabel_new(key)
        r     == add(b.labels, key, value)
    IN  IF label.kind # "Ok" THEN [builder |-> <<>>, result |-> label]
        ELSE IF key \in b.dynamic_labels
        THEN [builder |-> <<>>, result |-> DuplicateLabel(key)]
        ELSE IF r.result.kind # "Ok"
        THEN [builder |-> <<>>, result |-> r.result]
        ELSE [builder |-> <<[b EXCEPT !.labels = r.labels]>>, result |-> Ok(key)]

\* Builder::dynamic_label
Builder_dynamic_label(b, key) ==
    LET label == ValidatedLabel_new(key)
    IN  IF label.kind # "Ok" THEN [builder |-> <<>>, result |-> label]
        ELSE IF contains(b.labels, key)
        THEN [builder |-> <<>>, result |-> DuplicateLabel(key)]
        ELSE IF key \in b.dynamic_labels
        THEN [builder |-> <<>>, result |-> DuplicateLabel(key)]
        ELSE [builder |-> <<[b EXCEPT !.dynamic_labels = @ \cup {key}]>>,
              result |-> Ok(key)]

\* the errors of Builder::http_header, each with the key as given
InvalidHttpHeaderName(key) == [kind |-> "InvalidHttpHeaderName", label |-> key, char |-> ""]
InvalidHttpHeaderValue(key) == [kind |-> "InvalidHttpHeaderValue", label |-> key, char |-> ""]
DuplicateHttpHeader(key) == [kind |-> "DuplicateHttpHeader", label |-> key, char |-> ""]

\* the table of HeaderName::from_bytes for the characters of the modelled
\* names: a token character gives its lower-case form, any other character ""
HEADER_CHARS(c) ==
    CASE c \in {"a", "b", "c", "e", "n", "o", "p", "t", "x", "y", "-"} -> c
      [] c = "A" -> "a" [] c = "C" -> "c" [] c = "T" -> "t" [] c = "X" -> "x"
      [] OTHER -> ""
\* HeaderName::from_bytes: the normalised name in a one-element sequence, or
\* the empty sequence for an empty name or one with an invalid character
RECURSIVE LowerCased(_)
LowerCased(chars) ==
    IF chars = <<>> THEN "" ELSE HEADER_CHARS(Head(chars)) \o LowerCased(Tail(chars))
HeaderName_from_bytes(key) ==
    IF key = "" \/ \E i \in 1..Len(key) : HEADER_CHARS(Chars(key)[i]) = ""
    THEN <<>>
    ELSE <<LowerCased(Chars(key))>>
\* the bytes of the characters of the modelled values
ValueByte(c) ==
    CASE c = "\t" -> 9 [] c = "\n" -> 10 [] c = " " -> 32 [] c = "v" -> 118 [] c = "w" -> 119
\* HeaderValue::from_str: no control character but the tab, and no DEL
HeaderValue_from_str(value) ==
    IF \A i \in 1..Len(value) :
           \/ ValueByte(Chars(value)[i]) >= 32 /\ ValueByte(Chars(value)[i]) # 127
           \/ ValueByte(Chars(value)[i]) = 9
    THEN <<value>>
    ELSE <<>>

\* faulty variant: a header already in the map is replaced without an error
Builder_http_header_Replace(b, key, value) ==
    LET name == HeaderName_from_bytes(key)
        val  == HeaderValue_from_str(value)
    IN  IF name = <<>> THEN [builder |-> <<>>, result |-> InvalidHttpHeaderName(key)]
        ELSE IF val = <<>> THEN [builder |-> <<>>, result |-> InvalidHttpHeaderValue(key)]
        ELSE [builder |->
                 <<[b EXCEPT !.http_headers =
                        {h \in @ : h[1] # name[1]} \cup {<<name[1], val[1]>>}]>>,
              result |-> Ok(key)]

\* Builder::http_header: the name is converted first, then the value, then
\* HeaderMap::insert gives back the value the name had, if any
Builder_http_header(b, key, value) ==
    LET name == HeaderName_from_bytes(key)
        val  == HeaderValue_from_str(value)
    IN  IF name = <<>> THEN [builder |-> <<>>, result |-> InvalidHttpHeaderName(key)]
        ELSE IF val = <<>> THEN [builder |-> <<>>, result |-> InvalidHttpHeaderValue(key)]
        ELSE IF \E h \in b.http_headers : h[1] = name[1]
        THEN [builder |-> <<>>, result |-> DuplicateHttpHeader(key)]
        ELSE [builder |-> <<[b EXCEPT !.http_headers = @ \cup {<<name[1], val[1]>>}]>>,
              result |-> Ok(key)]

(* ---- events and channel items ---- *)
\* Some(LokiEvent): id stands for the event's (timestamp, message) pair
LokiEvent(id, level, trigger) ==
    [id |-> id, level |-> level, trigger_send |-> trigger]
\* Some(None): the explicit close value
CloseItem == [id |-> 0, level |-> "close", trigger_send |-> FALSE]

(* ---- SendQueue (lib.rs) ---- *)
SendQueue_new(encoded_labels) ==
    [encoded_labels |-> encoded_labels, sending |-> <<>>, to_send |-> <<>>]

\* faulty variant: the event joins the entries in flight
push_InFlight(q, event) == [q EXCEPT !.sending = Append(@, event)]

\* faulty variant: the event is put in front of the pending ones
push_Front(q, event) == [q EXCEPT !.to_send = <<event>> \o @]

push(q, event) == [q EXCEPT !.to_send = Append(@, event)]

\* faulty variant: nothing is dropped
drop_outstanding_Nothing(q) == q

\* the queue after drop_outstanding; the call returns Len(q.sending)
drop_outstanding(q) == [q EXCEPT !.sending = <<>>]

\* faulty variant: the failed entries are put behind the pending ones
on_send_result_Behind(q, result) ==
    IF result
    THEN [q EXCEPT !.sending = <<>>]
    ELSE [q EXCEPT !.sending = <<>>, !.to_send = q.to_send \o q.sending]

\* faulty variant: the entries in flight are put back after a success too
on_send_result_RequeueOnOk(q, result) ==
    [q EXCEPT !.sending = <<>>, !.to_send = q.sending \o q.to_send]

\* faulty variant: a failure puts the entries in flight back and loses the pending ones
on_send_result_LosePending(q, result) ==
    [q EXCEPT !.sending = <<>>, !.to_send = IF result THEN q.to_send ELSE q.sending]

\* faulty variant: a successful exchange leaves the entries in flight
on_send_result_KeepOnOk(q, result) ==
    IF result
    THEN q
    ELSE [q EXCEPT !.sending = <<>>, !.to_send = q.sending \o q.to_send]

\* result is TRUE for Ok(()), FALSE for Err(())
on_send_result(q, result) ==
    IF result
    THEN [q EXCEPT !.sending = <<>>]
    ELSE \* sending.append(&mut to_send); mem::swap(sending, to_send)
         [q EXCEPT !.sending = <<>>, !.to_send = q.sending \o q.to_send]

\* faulty variant: any pending event triggers a send
should_send_AnyEvent(q) == q.to_send # <<>>

should_send(q) == \E i \in 1..Len(q.to_send) : q.to_send[i].trigger_send

prepare_panics(q) == q.sending # <<>>

\* faulty variant: only a queue holding a force-flush event is swapped
prepare_sending_OnlyFlush(q) ==
    IF should_send(q) THEN [q EXCEPT !.sending = q.to_send, !.to_send = q.sending] ELSE q

\* the queue after prepare_sending: mem::swap(sending, to_send)
prepare_sending(q) == [q EXCEPT !.sending = q.to_send, !.to_send = q.sending]

\* the StreamAdapter prepare_sending returns, built from the swapped queue
StreamAdapter(q) ==
    [labels |-> q.encoded_labels,
     entries |-> [i \in 1..Len(q.sending) |-> q.sending[i].id]]

(* ---- backoff_time (lib.rs), on 64-bit words ---- *)
Pow2(n) == 2 ^ n
\* bit i of a small number n; n < 2^16
Bit(n, i) == IF i < 16 THEN (n \div Pow2(i)) % 2 ELSE 0
BitIndex == 0..(U64Width - 1)
\* u64::checked_shl: None (here <<>>) iff the shift count is >= 64, otherwise the
\* shifted word with the bits pushed past bit 63 lost
checked_shl(n, k) ==
    IF k >= U64Width THEN <<>>
    ELSE <<[i \in BitIndex |-> IF i >= k THEN Bit(n, i - k) ELSE 0]>>
U64_MAX == [i \in BitIndex |-> 1]
unwrap_or(opt, default) == IF opt = <<>> THEN default ELSE opt[1]
\* a word as milliseconds, saturated at 2^20 - 1 (more than any threshold used)
RECURSIVE LowValue(_, _)
LowValue(w, i) == IF i < 0 THEN 0 ELSE w[i] * Pow2(i) + LowValue(w, i - 1)
Millis(w) ==
    IF \E i \in BitIndex : i >= 20 /\ w[i] = 1 THEN Pow2(20) - 1 ELSE LowValue(w, 19)
Min(a, b) == IF a <= b THEN a ELSE b

\* faulty variant: the delay of the failure being handled (count + 1 failures)
backoff_time_Next(count) ==
    LET ms == Millis(unwrap_or(checked_shl(BaseDelayMs, count), U64_MAX))
    IN  [drop |-> ms >= OutageSecs * 1000, delay |-> Min(ms, CeilingSecs * 1000)]

\* (drop_outstanding, backoff_time) for the current backoff_count
backoff_time(count) ==
    LET ms == IF count >= 1
              THEN Millis(unwrap_or(checked_shl(BaseDelayMs, count - 1), U64_MAX))
              ELSE 0
    IN  [drop |-> ms >= OutageSecs * 1000, delay |-> Min(ms, CeilingSecs * 1000)]

(* ---- the sleep future ---- *)
NoBackoff == [armed |-> FALSE, delay |-> 0, elapsed |-> FALSE, polled |-> FALSE]
\* tokio::time::sleep(delay), not yet polled; a zero delay has its deadline now
sleep(delay) == [armed |-> TRUE, delay |-> delay, elapsed |-> delay = 0, polled |-> FALSE]

(* ---- the wire format (logproto.rs, Buffer in lib.rs) ---- *)
\* String::from_utf8 of well-formed bytes
RECURSIVE FromUtf8(_)
FromUtf8(bytes) ==
    IF bytes = <<>> THEN ""
    ELSE LET n == IF bytes[1] < 128 THEN 1 ELSE 2
             c == CHOOSE c \in DOMAIN Utf8 : Utf8[c] = SubSeq(bytes, 1, n)
         IN  c \o FromUtf8(SubSeq(bytes, n + 1, Len(bytes)))

\* the messages of logproto.rs; an Option is a sequence of at most one value
Timestamp(seconds, nanos) == [seconds |-> seconds, nanos |-> nanos]
EntryAdapter(timestamp, line) == [timestamp |-> <<timestamp>>, line |-> line]
PushRequest(streams) == [streams |-> streams]

\* protobuf base-128 varint of a natural number, low group first
RECURSIVE Varint(_)
Varint(n) == IF n < 128 THEN <<n>> ELSE <<(n % 128) + 128>> \o Varint(n \div 128)
\* the varint that starts at pos: its value and the position after it
RECURSIVE ReadVarint(_, _)
ReadVarint(bytes, pos) ==
    IF bytes[pos] < 128 THEN [value |-> bytes[pos], next |-> pos + 1]
    ELSE LET rest == ReadVarint(bytes, pos + 1)
         IN  [value |-> (bytes[pos] - 128) + 128 * rest.value, next |-> rest.next]

\* the key of a field: tag and wire type (0: varint, 2: length-delimited)
Key(tag, wire) == Varint(tag * 8 + wire)
LengthDelimited(tag, bytes) == Key(tag, 2) \o Varint(Len(bytes)) \o bytes
\* #[prost(string)], #[prost(uint64)], #[prost(int64)], #[prost(int32)] of a
\* value that is not negative: the default value is not written
EncodeString(tag, str) == IF str = "" THEN <<>> ELSE LengthDelimited(tag, Bytes(str))
EncodeInt(tag, n) == IF n = 0 THEN <<>> ELSE Key(tag, 0) \o Varint(n)
RECURSIVE Concat(_)
Concat(parts) == IF parts = <<>> THEN <<>> ELSE parts[1] \o Concat(Tail(parts))

\* prost_types::Timestamp: seconds (tag 1), nanos (tag 2)
EncodeTimestamp(t) == EncodeInt(1, t.seconds) \o EncodeInt(2, t.nanos)
\* EntryAdapter: timestamp (optional message, tag 1), line (string, tag 2)
EncodeEntry(entry) ==
    Concat([i \in 1..Len(entry.timestamp) |->
               LengthDelimited(1, EncodeTimestamp(entry.timestamp[i]))])
    \o EncodeString(2, entry.line)
\* StreamAdapter: labels (string, tag 1), entries (repeated message, tag 2),
\* hash (uint64, tag 3)
EncodeStream(stream) ==
    EncodeString(1, stream.labels)
    \o Concat([i \in 1..Len(stream.entries) |->
                  LengthDelimited(2, EncodeEntry(stream.entries[i]))])
    \o EncodeInt(3, stream.hash)
\* PushRequest: streams (repeated message, tag 1)
EncodePushRequest(msg) ==
    Concat([i \in 1..Len(msg.streams) |->
               LengthDelimited(1, EncodeStream(msg.streams[i]))])

\* the fields of an encoded message from pos on, in the order they are written
RECURSIVE Fields(_, _)
Fields(bytes, pos) ==
    IF pos > Len(bytes) THEN <<>>
    ELSE LET key  == ReadVarint(bytes, pos)
             tag  == key.value \div 8
             wire == key.value % 8
             v    == ReadVarint(bytes, key.next)
         IN  IF wire = 0
             THEN <<[tag |-> tag, value |-> v.value, payload |-> <<>>]>>
                  \o Fields(bytes, v.next)
             ELSE <<[tag |-> tag, value |-> 0,
                     payload |-> SubSeq(bytes, v.next, v.next + v.value - 1)]>>
                  \o Fields(bytes, v.next + v.value)
FieldsOf(bytes, tag) ==
    LET HasTag(field) == field.tag = tag IN SelectSeq(Fields(bytes, 1), HasTag)
\* a scalar field: the last value written, or the default
DecodeInt(bytes, tag) ==
    LET found == FieldsOf(bytes, tag)
    IN  IF found = <<>> THEN 0 ELSE found[Len(found)].value
DecodeString(bytes, tag) ==
    LET found == FieldsOf(bytes, tag)
    IN  IF found = <<>> THEN "" ELSE FromUtf8(found[Len(found)].payload)
DecodeTimestamp(bytes) == Timestamp(DecodeInt(bytes, 1), DecodeInt(bytes, 2))
DecodeEntry(bytes) ==
    LET found == FieldsOf(bytes, 1)
    IN  [timestamp |-> IF found = <<>> THEN <<>>
                       ELSE <<DecodeTimestamp(found[Len(found)].payload)>>,
         line |-> DecodeString(bytes, 2)]
DecodeStream(bytes) ==
    LET found == FieldsOf(bytes, 2)
    IN  [labels |-> DecodeString(bytes, 1),
         entries |-> [i \in 1..Len(found) |-> DecodeEntry(found[i].payload)],
         hash |-> DecodeInt(bytes, 3)]
DecodePushRequest(bytes) ==
    LET found == FieldsOf(bytes, 1)
    IN  PushRequest([i \in 1..Len(found) |-> DecodeStream(found[i].payload)])

\* the snappy block format: a literal element of up to 256 bytes
Literal(bytes) ==
    IF bytes = <<>> THEN <<>>
    ELSE IF Len(bytes) <= 60 THEN <<(Len(bytes) - 1) * 4>> \o bytes
    ELSE <<60 * 4, Len(bytes) - 1>> \o bytes
\* a copy element of 4 to 64 bytes from offset bytes back, in the form with a
\* one-byte offset where it fits
Copy(offset, len) ==
    IF len <= 11 /\ offset < 2048
    THEN <<1 + (len - 4) * 4 + (offset \div 256) * 32, offset % 256>>
    ELSE <<2 + (len - 1) * 4, offset % 256, offset \div 256>>
\* how many bytes from i on repeat those from j on (j < i), 64 at most
RECURSIVE MatchLen(_, _, _, _)
MatchLen(input, j, i, len) ==
    IF len < 64 /\ i + len <= Len(input) /\ input[j + len] = input[i + len]
    THEN MatchLen(input, j, i, len + 1)
    ELSE len
\* the elements for input from lit on, the bytes lit..(i - 1) being a literal
\* not yet written: a copy wherever the next four bytes occurred before
RECURSIVE Elements(_, _, _)
Elements(input, i, lit) ==
    IF i > Len(input) THEN Literal(SubSeq(input, lit, Len(input)))
    ELSE LET before == {j \in 1..(i - 1) : MatchLen(input, j, i, 0) >= 4}
         IN  IF before = {} THEN Elements(input, i + 1, lit)
             ELSE LET j   == CHOOSE j \in before : \A k \in before : k <= j
                      len == MatchLen(input, j, i, 0)
                  IN  Literal(SubSeq(input, lit, i - 1)) \o Copy(i - j, len)
                      \o Elements(input, i + len, i + len)
\* snap::raw::Encoder::compress: the length of the input, then the elements
compress(input) == Varint(Len(input)) \o Elements(input, 1, 1)

\* len more bytes, each the one offset bytes back
RECURSIVE CopyFrom(_, _, _)
CopyFrom(out, offset, len) ==
    IF len = 0 THEN out
    ELSE CopyFrom(Append(out, out[Len(out) - offset + 1]), offset, len - 1)
\* the elements from pos on, appended to out
RECURSIVE Expand(_, _, _)
Expand(bytes, pos, out) ==
    IF pos > Len(bytes) THEN out
    ELSE LET tag == bytes[pos]
             upper == tag \div 4
         IN  CASE tag % 4 = 0 /\ upper < 60 ->
                    Expand(bytes, pos + upper + 2,
                           out \o SubSeq(bytes, pos + 1, pos + upper + 1))
               [] tag % 4 = 0 /\ upper >= 60 ->
                    Expand(bytes, pos + bytes[pos + 1] + 3,
                           out \o SubSeq(bytes, pos + 2, pos + bytes[pos + 1] + 2))
               [] tag % 4 = 1 ->
                    Expand(bytes, pos + 2,
                           CopyFrom(out, (tag \div 32) * 256 + bytes[pos + 1],
                                    4 + (upper % 8)))
               [] OTHER ->
                    Expand(bytes, pos + 3,
                           CopyFrom(out, bytes[pos + 1] + 256 * bytes[pos + 2],
                                    upper + 1))
\* block decompression: the elements expanded; no bytes if the length the
\* block states is not the length they give
decompress(bytes) ==
    LET stated == ReadVarint(bytes, 1)
        out    == Expand(bytes, stated.next, <<>>)
    IN  IF Len(out) = stated.value THEN out ELSE <<>>

\* snap::raw::max_compress_len
max_compress_len(n) == 32 + n + n \div 6
\* Vec::resize
resize(vec, new_len, value) ==
    IF new_len <= Len(vec) THEN SubSeq(vec, 1, new_len)
    ELSE vec \o [i \in 1..(new_len - Len(vec)) |-> value]
\* faulty variant: the vector keeps what it held
clear_Nothing(vec) == vec

\* Vec::clear
clear(vec) == <<>>

Buffer_new == [encoded |-> <<>>, snappy |-> <<>>]
\* faulty variant: the whole snappy vector is returned, not the compressed part
Buffer_encode_WholeVec(buf, msg) ==
    LET encoded    == clear(buf.encoded) \o EncodePushRequest(msg)
        resized    == resize(buf.snappy, max_compress_len(Len(encoded)), 0)
        compressed == compress(encoded)
        snappy     == compressed \o SubSeq(resized, Len(compressed) + 1, Len(resized))
    IN  [buffer |-> [encoded |-> encoded, snappy |-> snappy], body |-> snappy]

\* Buffer::encode with compress_encoded: the buffer as the call leaves it and
\* the slice it returns
Buffer_encode(buf, msg) ==
    LET encoded    == clear(buf.encoded) \o EncodePushRequest(msg)
        resized    == resize(buf.snappy, max_compress_len(Len(encoded)), 0)
        compressed == compress(encoded)
        snappy_len == Len(compressed)
        snappy     == compressed \o SubSeq(resized, snappy_len + 1, Len(resized))
    IN  [buffer |-> [encoded |-> encoded, snappy |-> snappy],
         body |-> SubSeq(snappy, 1, snappy_len)]

(* ---- the HTTP exchange (reqwest) ---- *)
\* how an exchange can end: with a final response of some status, with a
\* redirect the client's policy refuses, or without any response
\* hops: the redirects the client followed in the exchange
NoResponse == [kind |-> "none", code |-> 0, hops |-> 0]
TransportError == [kind |-> "transport", code |-> 0, hops |-> 0]
Status(code) == [kind |-> "status", code |-> code, hops |-> 0]
\* lines 474-481: the redirect policy makes the exchange an error at a 302 or
\* 303 answer
BadRedirect(code) == [kind |-> "redirect", code |-> code, hops |-> 0]
Outcomes == {Status(200), Status(204), Status(304), Status(404), Status(500),
             BadRedirect(302), BadRedirect(303), TransportError}
\* the outcomes the general scenarios draw from
PlainOutcomes == {Status(200), TransportError}

\* the exchange goes on: the client follows a redirect of this status, its
\* hops-th
Following(code, hops) == [kind |-> "following", code |-> code, hops |-> hops]
\* the error of the default policy at a redirect past its limit
TooManyRedirects(code) == [kind |-> "toomany", code |-> code, hops |-> 0]
RedirectCodes == {301, 302, 303, 307, 308}
\* reqwest::redirect::Policy::default() is Policy::limited(10)
RedirectLimit == 10
\* Policy::default().redirect(a): previous is the number of URLs the exchange
\* has visited, the first one included
Policy_default_redirect(previous) ==
    IF previous > RedirectLimit THEN "too_many" ELSE "follow"

\* faulty variant: every redirect goes to the default policy
redirect_Default(status, previous) == Policy_default_redirect(previous)

\* lines 474-481: the custom policy
redirect(status, previous) ==
    IF status = 302 \/ status = 303 THEN "bad_redirect"
    ELSE Policy_default_redirect(previous)

\* Response::error_for_status: an error for a client or server error status
error_for_status(code) == IF code \in 400..599 THEN "err" ELSE "ok"

\* lines 586-592, the body of the send future: send().await? gives up on an
\* exchange without a final response, error_for_status()? on an error status
SendResult(outcome) ==
    IF outcome.kind # "status" THEN "err" ELSE error_for_status(outcome.code)

(* ---- Init: the state BackgroundTask::new and event_channel leave ---- *)
Init ==
    /\ channel = <<>>
    /\ senders = TRUE
    /\ queues = [l \in Levels |-> SendQueue_new(finish(FormattedLabels_new, l))]
    /\ backoff_count = 0
    /\ backoff = NoBackoff
    /\ quitting = FALSE
    /\ send_task = "none"
    /\ pc = "run"
    /\ nsub = 0
    /\ accepted = <<>>
    /\ requests = <<>>
    /\ results = <<>>
    /\ delays = <<>>
    /\ signalled = <<>>
    /\ response = NoResponse
    /\ labels = NoLabels
    /\ added = <<>>
    /\ builder = <<Builder_new>>
    /\ returned = NoCall
    /\ buffer = Buffer_new
    /\ messages = <<>>
    /\ body = <<>>

(* ---- producers ---- *)
\* faulty variant: the channel takes the item even when it is full
try_send_Unbounded(chan, item, receiver_alive) ==
    IF receiver_alive THEN Append(chan, item) ELSE chan

\* mpsc::Sender::try_send: Err(Full) or Err(Closed) leaves the channel as it is
try_send(chan, item, receiver_alive) ==
    IF receiver_alive /\ Len(chan) < ChanCap THEN Append(chan, item) ELSE chan

\* Layer::on_event for an event of the given level; own is TRUE when the
\* event's target starts with "tracing_loki"
on_event(level, own) ==
    /\ senders
    /\ LET event == LokiEvent(nsub + 1, level, ~own)
           chan  == try_send(channel, event, pc # "done")
       IN  /\ channel' = chan
           /\ accepted' = IF chan # channel THEN Append(accepted, event) ELSE accepted
    /\ nsub' = nsub + 1
    /\ UNCHANGED <<senders, queues, backoff_count, backoff, quitting, send_task, pc,
                   requests, results, delays, signalled, response,
                   setupVars, wireVars>>

\* the application logs an event
Submit(level, own) == nsub < MaxEvents /\ on_event(level, own)

\* BackgroundTaskController::shutdown: sender.send(None).await, which waits for
\* room in the channel; after the task finished the send fails and is ignored
Shutdown ==
    /\ senders
    /\ pc # "done"
    /\ \A i \in 1..Len(accepted) : accepted[i] # CloseItem
    /\ Len(channel) < ChanCap
    /\ channel' = Append(channel, CloseItem)
    /\ accepted' = Append(accepted, CloseItem)
    /\ signalled' = <<[pending |-> UNION {{queues[l].to_send[i].id :
                                              i \in 1..Len(queues[l].to_send)} :
                                           l \in Levels},
                       issued |-> Len(requests),
                       outstanding |-> send_task # "none"]>>
    /\ UNCHANGED <<senders, queues, backoff_count, backoff, quitting, send_task, pc,
                   nsub, requests, results, delays, response, setupVars, wireVars>>

\* the Layer and every controller are dropped: the channel is closed
DropSenders ==
    /\ senders
    /\ senders' = FALSE
    /\ UNCHANGED <<channel, queues, backoff_count, backoff, quitting, send_task, pc,
                   nsub, accepted, requests, results, delays, signalled, response,
                   setupVars, wireVars>>

(* ---- environment ---- *)
NFail == Cardinality({i \in 1..Len(results) : results[i] = "err"})
           + (IF send_task = "err" THEN 1 ELSE 0)

\* the HTTP exchange of the outstanding request ends
Respond(outcome) ==
    /\ send_task = "pending"
    /\ SendResult(outcome) = "ok" \/ NFail < MaxFailures
    /\ send_task' = SendResult(outcome)
    /\ response' = [outcome EXCEPT !.hops = response.hops]
    /\ UNCHANGED <<channel, senders, queues, backoff_count, backoff, quitting, pc,
                   nsub, accepted, requests, results, delays, signalled, setupVars, wireVars>>

\* the server answers the outstanding request, or the request that followed
\* its last redirect, with a redirect: the policy follows it or makes the
\* exchange an error
Redirect(status) ==
    /\ send_task = "pending"
    /\ \E verdict \in {redirect(status, response.hops + 1)} :
          IF verdict = "follow"
          THEN /\ response' = Following(status, response.hops + 1)
               /\ UNCHANGED send_task
          ELSE /\ NFail < MaxFailures
               /\ send_task' = "err"
               /\ response' = [(IF verdict = "bad_redirect" THEN BadRedirect(status)
                                 ELSE TooManyRedirects(status))
                                  EXCEPT !.hops = response.hops]
    /\ UNCHANGED <<channel, senders, queues, backoff_count, backoff, quitting, pc,
                   nsub, accepted, requests, results, delays, signalled, setupVars, wireVars>>

\* the deadline of the armed sleep passes
TimerElapse ==
    /\ backoff.armed /\ ~backoff.elapsed
    /\ backoff' = [backoff EXCEPT !.elapsed = TRUE]
    /\ UNCHANGED <<channel, senders, queues, backoff_count, quitting, send_task, pc,
                   nsub, accepted, requests, results, delays, signalled, response,
                   setupVars, wireVars>>

(* ---- BackgroundTask::poll ---- *)
\* The steps of poll work on a record e of the fields poll reads and writes:
\* queues, backoff_count, backoff, send_task, the local backing_off, the channel
\* (the engine's own diagnostics re-enter it while the Layer is alive) and the
\* history.

\* faulty variant: the queued items are thrown away
DrainQueues_Nothing(qs, chan) == qs

\* faulty variant: every event is put into the first bucket, whatever its level
RECURSIVE DrainQueues_OneBucket(_, _)
DrainQueues_OneBucket(qs, chan) ==
    IF chan = <<>> THEN qs
    ELSE DrainQueues_OneBucket(IF Head(chan) = CloseItem THEN qs
                               ELSE [qs EXCEPT ![LevelSeq[1]] = push(@, Head(chan))],
                               Tail(chan))

\* faulty variant: only the first item received is routed, the others are lost
DrainQueues_First(qs, chan) ==
    IF chan = <<>> \/ Head(chan) = CloseItem THEN qs
    ELSE [qs EXCEPT ![LevelSeq[level_index(Head(chan).level)]] = push(@, Head(chan))]

\* lines 512-518: route every queued item; the close value sets quitting
RECURSIVE DrainQueues(_, _)
DrainQueues(qs, chan) ==
    IF chan = <<>> THEN qs
    ELSE LET item == Head(chan)
         IN  DrainQueues(IF item = CloseItem THEN qs
                         ELSE [qs EXCEPT ![LevelSeq[level_index(item.level)]] = push(@, item)],
                         Tail(chan))

\* faulty variant: quitting is set whatever the channel holds
DrainQuitting_Always(q, chan, senders_alive) == TRUE

DrainQuitting(q, chan, senders_alive) ==
    q \/ (\E i \in 1..Len(chan) : chan[i] = CloseItem) \/ ~senders_alive

\* faulty variant: the sleep is taken as elapsed without polling it
PollBackoff_Ready(e) == [e EXCEPT !.backing_off = FALSE, !.backoff = NoBackoff]

\* faulty variant: a sleep found elapsed is not cleared
PollBackoff_KeepSleep(e) ==
    LET pending == e.backoff.armed /\ ~e.backoff.elapsed
    IN  [e EXCEPT !.backing_off = pending,
                  !.backoff = IF e.backoff.armed THEN [e.backoff EXCEPT !.polled = TRUE]
                              ELSE NoBackoff]

\* lines 520-527: poll the sleep; Pending registers its waker, Ready clears it
PollBackoff(e) ==
    LET pending == e.backoff.armed /\ ~e.backoff.elapsed
    IN  [e EXCEPT !.backing_off = pending,
                  !.backoff = IF pending THEN [e.backoff EXCEPT !.polled = TRUE]
                              ELSE NoBackoff]

\* tracing::error! with the NoSubscriber guard dropped (lines 534-542 and
\* 546-552): the application's subscriber holds the Layer, as in the crate's
\* documented setup, so on_event captures the diagnostic as an ERROR event with
\* target "tracing_loki", that is with trigger_send false; once the Layer is
\* dropped nothing captures it
Diagnostic(e) ==
    LET event == LokiEvent(e.nsub + 1, "error", FALSE)
        chan  == try_send(e.channel, event, TRUE)
    IN  IF e.senders
        THEN [e EXCEPT !.nsub = e.nsub + 1,
                       !.channel = chan,
                       !.accepted = IF chan # e.channel THEN Append(@, event) ELSE @]
        ELSE e

\* lines 532-556: the Err branch up to backing_off = true
OnFailure(e) ==
    LET bt == backoff_time(e.backoff_count)
        e1 == Diagnostic(e)
        e2 == IF bt.drop
              THEN Diagnostic([e1 EXCEPT !.queues =
                                  [l \in Levels |-> drop_outstanding(e1.queues[l])]])
              ELSE e1
    IN  [e2 EXCEPT !.backoff = sleep(bt.delay),
                   !.backoff_count = e.backoff_count + 1,
                   !.backing_off = TRUE,
                   !.delays = Append(@, bt.delay)]

\* faulty variant: the counter survives a success
OnSuccess_KeepCount(e) == [e EXCEPT !.delays = <<>>]

\* lines 557-559: the Ok branch
OnSuccess(e) == [e EXCEPT !.backoff_count = 0, !.delays = <<>>]

\* lines 531-565: the future is Ready with res ("ok" or "err")
HandleResult(e, res) ==
    LET e1 == IF res = "err" THEN OnFailure(e) ELSE OnSuccess(e)
    IN  [e1 EXCEPT !.queues = [l \in Levels |-> on_send_result(e1.queues[l], res = "ok")],
                   !.send_task = "none",
                   !.results = Append(@, res)]

\* lines 529-568: poll the send future if there is one. A future made in this
\* call ("new") is polled here for the first time: imm is what that poll finds,
\* "pending", or "err" when the request fails before any I/O.
PollSendTask(e, imm) ==
    LET st == IF e.send_task = "new" THEN imm ELSE e.send_task
    IN  IF st \in {"ok", "err"} THEN HandleResult(e, st)
        ELSE [e EXCEPT !.send_task = st]

\* faulty variant: an outstanding send does not hold back the next one
CanPrepare_AnyTime(e) ==
    /\ ~e.backing_off
    /\ \E i \in 1..Len(LevelSeq) : should_send(e.queues[LevelSeq[i]])

\* lines 569-571
CanPrepare(e) ==
    /\ e.send_task = "none"
    /\ ~e.backing_off
    /\ \E i \in 1..Len(LevelSeq) : should_send(e.queues[LevelSeq[i]])

\* faulty variant: the streams without entries are kept
Streams_Unfiltered(qs) == [i \in 1..Len(LevelSeq) |-> StreamAdapter(qs[LevelSeq[i]])]

\* lines 573-578: the streams of the request, in LevelMap order, empty ones left out
Streams(qs) ==
    LET all == [i \in 1..Len(LevelSeq) |-> StreamAdapter(qs[LevelSeq[i]])]
        NonEmpty(s) == s.entries # <<>>
    IN  SelectSeq(all, NonEmpty)

\* lines 573-595: prepare every queue, build the request, make the send future
Prepare(e) ==
    LET qs == [l \in Levels |-> prepare_sending(e.queues[l])]
    IN  IF \E l \in Levels : prepare_panics(e.queues[l])
        THEN [e EXCEPT !.panic = TRUE]
        ELSE [e EXCEPT !.queues = qs,
                       !.requests = Append(@, Streams(qs)),
                       !.send_task = "new"]

\* faulty variant: after a completed send the loop is left without preparing the next
PollLoop_NoRepeat(e, imm) ==
    LET a == PollSendTask(e, imm)
    IN  IF CanPrepare(a) /\ e.send_task = "none"
        THEN LET b == Prepare(a)
             IN  IF b.panic THEN b ELSE PollSendTask(b, imm)
        ELSE a

\* lines 528-599: the loop
RECURSIVE PollLoop(_, _)
PollLoop(e, imm) ==
    LET a == PollSendTask(e, imm)
    IN  IF CanPrepare(a)
        THEN LET b == Prepare(a)
             IN  IF b.panic THEN b ELSE PollLoop(b, imm)
        ELSE a

\* faulty variant: an outstanding send does not keep the task alive
PollResult_Quit(e, q) == IF q THEN "done" ELSE "run"

\* faulty variant: the task never finishes
PollResult_Never(e, q) == "run"

\* faulty variant: the task stays alive while it is backing off
PollResult_WaitBackoff(e, q) ==
    IF q /\ e.send_task = "none" /\ ~e.backing_off THEN "done" ELSE "run"

\* lines 600-604
PollResult(e, q) == IF q /\ e.send_task = "none" THEN "done" ELSE "run"

\* One call of poll; imm is explained above. On a closed and empty
\* channel poll_recv is Ready(None) on every call, so the drain loop of lines
\* 512-518 ends only if the runtime makes poll_recv return Pending (budget, the
\* cooperative-scheduling budget of the tokio task); otherwise it never ends.
\* The drain receives the first n items of the channel: all of them, unless
\* the budget of the task is used up before the channel is empty.
PollDrain(imm, budget, n) ==
    /\ pc = "run"
    /\ imm = "pending" \/ NFail < MaxFailures
    /\ LET received == SubSeq(channel, 1, n)
           left == SubSeq(channel, n + 1, Len(channel))
           q  == DrainQuitting(quitting, received, senders \/ left # <<>>)
           e0 == [queues |-> DrainQueues(queues, received),
                  channel |-> left,
                  senders |-> senders,
                  backoff_count |-> backoff_count,
                  backoff |-> backoff,
                  send_task |-> send_task,
                  backing_off |-> FALSE,
                  nsub |-> nsub,
                  accepted |-> accepted,
                  requests |-> requests,
                  results |-> results,
                  delays |-> delays,
                  panic |-> FALSE]
           e1 == PollBackoff(e0)
       IN  \E e \in {PollLoop(e1, imm)} :   \* e: the fields as the loop leaves them
           IF ~senders /\ ~budget /\ left = <<>>
           THEN /\ pc' = "spin"
                /\ queues' = e0.queues
                /\ channel' = <<>>
                /\ quitting' = TRUE
                /\ UNCHANGED <<backoff_count, backoff, send_task, nsub, accepted,
                               requests, results, delays, response>>
           ELSE /\ pc' = IF e.panic THEN "panic" ELSE PollResult(e, q)
                /\ queues' = e.queues
                /\ channel' = e.channel
                /\ quitting' = q
                /\ backoff_count' = e.backoff_count
                /\ backoff' = e.backoff
                /\ send_task' = e.send_task
                /\ nsub' = e.nsub
                /\ accepted' = e.accepted
                /\ requests' = e.requests
                /\ results' = e.results
                /\ delays' = e.delays
                /\ response' = IF send_task = "pending" THEN response ELSE NoResponse
    /\ UNCHANGED <<senders, signalled, setupVars, wireVars>>

\* a call of poll whose drain empties the channel
Poll(imm, budget) == PollDrain(imm, budget, Len(channel))

Next ==
    \/ \E level \in InputLevels, own \in BOOLEAN : Submit(level, own)
    \/ Shutdown
    \/ DropSenders
    \/ \E outcome \in PlainOutcomes : Respond(outcome)
    \/ TimerElapse
    \/ \E imm \in {"pending", "err"}, budget \in (IF senders THEN {TRUE} ELSE BOOLEAN) :
           Poll(imm, budget)

Spec == Init /\ [][Next]_vars

(* ---- scenario: one batch ---- *)
\* The application logs three events whose target starts with "tracing_loki"
\* and then one that does not, all at one level, while the engine runs and
\* may be shut down. Every handled failure has captured one diagnostic (no long-outage
\* drop happens within MaxFailures), which nsub counts too.
NErr == Cardinality({i \in 1..Len(results) : results[i] = "err"})
BatchPos == nsub - NErr
BatchLevel == IF accepted = <<>> THEN "none" ELSE accepted[1].level

SubmitBatch ==
    /\ BatchPos < 4
    /\ \E level \in InputLevels :
          /\ BatchPos > 0 => level = BatchLevel
          /\ on_event(level, BatchPos < 3)

NextBatch ==
    \/ SubmitBatch
    \/ Shutdown
    \/ \E outcome \in PlainOutcomes : Respond(outcome)
    \/ TimerElapse
    \/ \E imm \in {"pending", "err"} : Poll(imm, TRUE)

SpecBatch == Init /\ [][NextBatch]_vars

(* ---- scenario: a long outage ---- *)
\* The backend is down: every exchange ends in an error. The application logs
\* an INFO event (target not "tracing_loki") whenever the channel is empty and
\* the engine holds no event that would trigger a send, so that each retry has
\* something to send; its first MaxEvents events it logs at any moment, and it
\* may log one more while the request is outstanding whose failure is the first
\* to reach the long-outage threshold.
Idle ==
    /\ \A l \in Levels : ~should_send(queues[l])
    /\ send_task = "none"
    /\ channel = <<>>

\* the failure of the outstanding request would be the first with drop_outstanding
AtThreshold ==
    /\ send_task = "pending"
    /\ backoff_time(backoff_count).drop /\ ~backoff_time(backoff_count - 1).drop
    /\ channel = <<>>
    /\ \A l \in Levels : queues[l].to_send = <<>>

SubmitOutage ==
    /\ Idle \/ nsub < MaxEvents \/ AtThreshold
    /\ Len(results) < MaxStreak
    /\ on_event("info", FALSE)

BackendDown ==
    /\ send_task = "pending"
    /\ Len(results) < MaxStreak
    /\ send_task' = SendResult(TransportError)
    /\ response' = TransportError
    /\ UNCHANGED <<channel, senders, queues, backoff_count, backoff, quitting, pc,
                   nsub, accepted, requests, results, delays, signalled, setupVars, wireVars>>

NextOutage ==
    \/ SubmitOutage
    \/ BackendDown
    \/ TimerElapse
    \/ Poll("pending", TRUE)

SpecOutage == Init /\ [][NextOutage]_vars

(* ---- recovery scenario: the backend comes back after a long outage ---- *)
\* an exchange has succeeded
Recovered == \E i \in 1..Len(results) : results[i] = "ok"
\* the exchanges finished since the first success
AfterRecovery ==
    IF Recovered
    THEN Len(results) - (CHOOSE i \in 1..Len(results) :
                            results[i] = "ok" /\ \A j \in 1..(i - 1) : results[j] = "err")
    ELSE 0
\* the last failure dropped the entries in flight
Dropped == backoff_time(backoff_count - 1).drop

SubmitRecover ==
    /\ Recovered => AfterRecovery < MaxFailures
    /\ SubmitOutage

\* the backend fails every exchange until entries were dropped; from then on
\* it may answer, and fail again
RespondRecover(outcome) ==
    /\ send_task = "pending"
    /\ Len(results) < MaxStreak
    /\ IF Recovered THEN AfterRecovery < MaxFailures
                    ELSE SendResult(outcome) = "err" \/ Dropped
    /\ send_task' = SendResult(outcome)
    /\ response' = outcome
    /\ UNCHANGED <<channel, senders, queues, backoff_count, backoff, quitting, pc,
                   nsub, accepted, requests, results, delays, signalled, setupVars, wireVars>>

NextRecover ==
    \/ SubmitRecover
    \/ \E outcome \in PlainOutcomes : RespondRecover(outcome)
    \/ TimerElapse
    \/ Poll("pending", TRUE)

SpecRecover == Init /\ [][NextRecover]_vars

(* ---- scenario: shutdown under a steady stream of events ---- *)
\* The Layer stays installed and the application never has to stop logging:
\* it logs INFO events with force-flush set. Every exchange succeeds. The
\* histories (accepted, requests, results, signalled) and the identities of
\* the events grow without bound in such a run, so the observer may forget the
\* finished past: Forget renumbers the events still in flight from 1 and keeps
\* of the histories only what is about them; it leaves every field of the
\* engine and the channel as they are. At most MaxEvents events are remembered
\* at a time.
SubmitStream ==
    /\ nsub < MaxEvents
    /\ on_event("info", FALSE)

\* the ids of the events in flight
InFlight ==
    UNION {{queues[l].sending[i].id : i \in 1..Len(queues[l].sending)} : l \in Levels}
\* the new number of an event in flight: its rank among them
Rank(id) == Cardinality({j \in InFlight : j <= id})
Renumbered(events) ==
    [i \in 1..Len(events) |-> [events[i] EXCEPT !.id = Rank(events[i].id)]]

Forget ==
    /\ pc = "run"
    /\ send_task \in {"none", "pending"}
    /\ results # <<>>
    /\ channel = <<>>
    /\ \A l \in Levels : queues[l].to_send = <<>>
    /\ LET Kept(item) == item = CloseItem \/ item.id \in InFlight
           qs == [l \in Levels |->
                     [queues[l] EXCEPT !.sending = Renumbered(queues[l].sending)]]
       IN  /\ queues' = qs
           /\ nsub' = Cardinality(InFlight)
           /\ accepted' = [i \in 1..Len(SelectSeq(accepted, Kept)) |->
                              IF SelectSeq(accepted, Kept)[i] = CloseItem
                              THEN CloseItem
                              ELSE [SelectSeq(accepted, Kept)[i] EXCEPT
                                       !.id = Rank(SelectSeq(accepted, Kept)[i].id)]]
           /\ requests' = IF send_task = "pending" THEN <<Streams(qs)>> ELSE <<>>
    /\ results' = <<>>
    /\ signalled' = IF signalled = <<>> THEN <<>>
                    ELSE <<[pending |-> {}, issued |-> 0, outstanding |-> FALSE]>>
    /\ UNCHANGED <<channel, senders, backoff_count, backoff, quitting, send_task, pc,
                   delays, response, setupVars, wireVars>>

PollStream == Poll("pending", TRUE)
RespondOk == Respond(Status(200))

NextStream ==
    \/ SubmitStream
    \/ Shutdown
    \/ RespondOk
    \/ PollStream
    \/ Forget

\* the engine is polled whenever a poll would do something, and every
\* exchange comes to its end
SpecStream ==
    Init /\ [][NextStream]_vars /\ WF_vars(PollStream) /\ WF_vars(RespondOk)

(* ---- status scenario: the backend answers with any of the outcomes ---- *)
RespondAny == \E outcome \in Outcomes : Respond(outcome)

NextStatus ==
    \/ SubmitStream
    \/ RespondAny
    \/ TimerElapse
    \/ PollStream

SpecStatus == Init /\ [][NextStatus]_vars

(* ---- redirect scenario: the server answers with redirects ---- *)
NextRedirect ==
    \/ SubmitStream
    \/ \E status \in RedirectCodes : Redirect(status)
    \/ \E outcome \in {Status(200), Status(404), TransportError} : Respond(outcome)
    \/ TimerElapse
    \/ PollStream

SpecRedirect == Init /\ [][NextRedirect]_vars

(* ---- burst scenario: the channel holds more than the budget allows ---- *)
\* a call of poll in which poll_recv returns Pending for want of budget
\* after n items, with items left in the channel
PollBurst == \E n \in 1..(Len(channel) - 1) : PollDrain("pending", TRUE, n)

NextBurst ==
    \/ SubmitStream
    \/ \E outcome \in PlainOutcomes : Respond(outcome)
    \/ TimerElapse
    \/ PollStream
    \/ PollBurst

SpecBurst == Init /\ [][NextBurst]_vars

(* ---- key scenario: the application validates label keys ---- *)
\* the characters the keys are made of: letters, the underscore, the ASCII
\* neighbours of the accepted ranges, and a character of two bytes
KeyChars == {"a", "z", "A", "Z", "_", "@", "[", "^", "{", "é"}
RECURSIVE Strings(_)
Strings(n) ==
    IF n = 0 THEN {""}
    ELSE LET shorter == Strings(n - 1)
         IN  shorter \cup {str \o c : str \in shorter, c \in KeyChars}
Keys == Strings(MaxKeyLen) \cup {"level", "Level", "levels", "leve"}

Validate(key) ==
    /\ returned' = Call("ValidatedLabel::new", key, "", ValidatedLabel_new(key))
    /\ UNCHANGED <<engineVars, wireVars, labels, added, builder>>

NextKeys == \E key \in Keys : Validate(key)

SpecKeys == Init /\ [][NextKeys]_vars

(* ---- label scenario: the application adds labels to a FormattedLabels ---- *)
LabelKeys == {"", "host", "z_A", "level", "a@"}
Values == {"", "mine", "say \"hi\"", "C:\\"}

\* ValidatedLabel::new(key), then FormattedLabels::add with the validated key
AddLabel(key, value) ==
    LET label == ValidatedLabel_new(key)
        r     == add(labels, key, value)
    IN  IF label.kind # "Ok"
        THEN /\ returned' = Call("ValidatedLabel::new", key, value, label)
             /\ UNCHANGED <<engineVars, wireVars, labels, added, builder>>
        ELSE /\ labels' = r.labels
             /\ added' = IF r.result.kind = "Ok"
                         THEN Append(added, [kind |-> "static", key |-> key,
                                             value |-> value])
                         ELSE added
             /\ returned' = Call("FormattedLabels::add", key, value, r.result)
             /\ UNCHANGED <<engineVars, wireVars, builder>>

NextLabels == \E key \in LabelKeys, value \in Values : AddLabel(key, value)

SpecLabels == Init /\ [][NextLabels]_vars

(* ---- builder scenario: the application configures a Builder ---- *)
\* builder()
StartBuilder ==
    /\ builder' = <<Builder_new>>
    /\ added' = <<>>
    /\ returned' = Call("builder", "", "", Ok(""))
    /\ UNCHANGED <<engineVars, wireVars, labels>>

\* builder.label(key, value): an error drops the builder
CallLabel(key, value) ==
    /\ builder # <<>>
    /\ LET r == Builder_label(builder[1], key, value)
       IN  /\ builder' = r.builder
           /\ added' = IF r.builder = <<>> THEN <<>>
                       ELSE Append(added, [kind |-> "static", key |-> key,
                                           value |-> value])
           /\ returned' = Call("Builder::label", key, value, r.result)
    /\ UNCHANGED <<engineVars, wireVars, labels>>

\* builder.dynamic_label(key)
CallDynamicLabel(key) ==
    /\ builder # <<>>
    /\ LET r == Builder_dynamic_label(builder[1], key)
       IN  /\ builder' = r.builder
           /\ added' = IF r.builder = <<>> THEN <<>>
                       ELSE Append(added, [kind |-> "dynamic", key |-> key,
                                           value |-> ""])
           /\ returned' = Call("Builder::dynamic_label", key, "", r.result)
    /\ UNCHANGED <<engineVars, wireVars, labels>>

NextBuilder ==
    \/ StartBuilder
    \/ \E key \in LabelKeys, value \in Values : CallLabel(key, value)
    \/ \E key \in LabelKeys : CallDynamicLabel(key)

SpecBuilder == Init /\ [][NextBuilder]_vars

(* ---- header scenario: the application sets extra HTTP headers ---- *)
HeaderNames == {"", "x-a", "X-A", "x-b", "x-c", "x a", "Content-Type", "content-type"}
HeaderValues == {"", "v", "v w", "v\tw", "v\nw"}

\* builder.http_header(key, value): an error drops the builder
CallHttpHeader(key, value) ==
    /\ builder # <<>>
    /\ LET r == Builder_http_header(builder[1], key, value)
       IN  /\ builder' = r.builder
           /\ added' = IF r.builder = <<>> THEN <<>>
                       ELSE Append(added, [kind |-> "header", key |-> key,
                                           value |-> value])
           /\ returned' = Call("Builder::http_header", key, value, r.result)
    /\ UNCHANGED <<engineVars, wireVars, labels>>

NextHeaders ==
    \/ StartBuilder
    \/ \E key \in HeaderNames, value \in HeaderValues : CallHttpHeader(key, value)

SpecHeaders == Init /\ [][NextHeaders]_vars

(* ---- encoding scenario: one Buffer encodes requests one after another ---- *)
\* the entries a stream can carry: one with every field at its default, one
\* with a two-byte varint and a line that repeats itself
EntryTypes == {EntryAdapter(Timestamp(0, 0), ""),
               EntryAdapter(Timestamp(300, 1), "zazazazazazazaza")}
EntryLists == {<<>>} \cup {<<a>> : a \in EntryTypes}
              \cup UNION {{<<a, b>> : b \in EntryTypes \ {a}} : a \in EntryTypes}
\* the StreamAdapter prepare_sending builds for a level, with these entries
StreamOf(level, entries) ==
    [labels |-> finish(FormattedLabels_new, level), entries |-> entries, hash |-> 0]
\* the requests of lines 573-580: a stream per level that has entries
Batches ==
    LET HasEntries(stream) == stream.entries # <<>>
    IN  {PushRequest(SelectSeq(<<StreamOf("info", a), StreamOf("error", b)>>,
                               HasEntries)) :
            a \in EntryLists, b \in EntryLists} \ {PushRequest(<<>>)}

\* self.buffer.encode(&request).to_owned()
EncodeBatch(msg) ==
    /\ Len(messages) < MaxEncodes
    /\ \E r \in {Buffer_encode(buffer, msg)} :
          /\ buffer' = r.buffer
          /\ body' = r.body
    /\ messages' = Append(messages, msg)
    /\ UNCHANGED <<engineVars, setupVars>>

NextEncode == \E msg \in Batches : EncodeBatch(msg)

SpecEncode == Init /\ [][NextEncode]_vars

(* ======================= the claims ======================= *)
IsEvent(item) == item # CloseItem
Ids(events) == [i \in 1..Len(events) |-> events[i].id]
IsPrefix(a, b) == Len(a) <= Len(b) /\ SubSeq(b, 1, Len(a)) = a
\* the events accepted at a level, as ids in submission order
AcceptedAt(level) ==
    LET AtLevel(item) == item.level = level IN Ids(SelectSeq(accepted, AtLevel))
\* the entries a request carries for a level (none if it has no such stream)
EntriesOf(req, level) ==
    LET Mine(stream) == stream.labels = queues[level].encoded_labels
        mine == SelectSeq(req, Mine)
    IN  IF mine = <<>> THEN <<>> ELSE mine[1].entries
\* the entries of the first n requests for a level, concatenated
RECURSIVE Delivered(_, _)
Delivered(level, n) ==
    IF n = 0 THEN <<>> ELSE Delivered(level, n - 1) \o EntriesOf(requests[n], level)
\* the event with a given id, as accepted
EventOf(id) == CHOOSE ev \in {accepted[i] : i \in 1..Len(accepted)} : ev.id = id
Outstanding == Len(requests) - Len(results)
LastRequest == requests[Len(requests)]
\* the queues as the drain of lines 512-518 leaves them
Drained == DrainQueues(queues, channel)

(* ---- C1 ---- *)
\* C1: at most one HTTP request is outstanding, over all five buckets together:
\* the requests issued exceed the exchanges finished by at most one, by one
\* exactly while send_task holds a future; the in-flight entries of every bucket
\* are those of that one request (none when nothing is outstanding); and
\* prepare_sending never runs, and so never panics, while a send is outstanding.
C1_OneOutstanding ==
    /\ pc # "panic"
    /\ Outstanding \in {0, 1}
    /\ (send_task = "none") <=> (Outstanding = 0)
    /\ \A l \in Levels :
          Ids(queues[l].sending) =
              IF Outstanding = 1 THEN EntriesOf(LastRequest, l) ELSE <<>>

\* a request is outstanding for one bucket while another bucket, with nothing
\* in flight, holds a routed force-flush event that was not sent
C1_Witness ==
    /\ send_task = "pending"
    /\ \E l \in Levels : queues[l].sending # <<>>
    /\ \E l \in Levels : queues[l].sending = <<>> /\ should_send(queues[l])

(* ---- C2 ---- *)
\* C2: when every exchange succeeded and the engine has completed, the entries
\* delivered for each level, concatenated over all requests, are exactly the
\* events accepted at that level, in submission order.
C2_DeliveredExactly ==
    (pc = "done" /\ \A i \in 1..Len(results) : results[i] = "ok")
        => \A l \in Levels : Delivered(l, Len(requests)) = AcceptedAt(l)

(* ---- C3 ---- *)
\* the step handles the failure of the outstanding request
FailureStep == send_task = "err" /\ results' # results
Requeued ==
    \A l \in Levels :
        /\ queues'[l].sending = <<>>
        /\ queues'[l].to_send = queues[l].sending \o Drained[l].to_send
\* the step issues the request that follows a failed one (the failure was
\* handled by an earlier poll, with backoff_count one less than it is now)
RetryStep ==
    /\ Len(requests') = Len(requests) + 1
    /\ Len(results) = Len(requests)
    /\ results # <<>> /\ results[Len(results)] = "err"
\* the failed request is, stream by stream, a prefix of the one that follows it
RetryIsPrefix ==
    \A l \in Levels :
        IsPrefix(EntriesOf(LastRequest, l), EntriesOf(requests'[Len(requests')], l))

\* C3 as stated: whenever a send fails, every bucket's in_flight entries are put
\* back in front of its pending entries, in order.
C3_Original == [][FailureStep => Requeued]_vars

\* C3 as amended: when a send fails and the long-outage drop does not apply
\* (computed delay below 30 s), every bucket's in_flight entries are put back in
\* front of its pending entries, in order; and a retried batch is a prefix of
\* the next batch of its bucket.
C3_RequeueInFront ==
    [][/\ (FailureStep /\ ~backoff_time(backoff_count).drop) => Requeued
       /\ (RetryStep /\ ~backoff_time(backoff_count - 1).drop) => RetryIsPrefix]_vars

\* a failed batch was retried together with an event that was pending behind it
C3_Witness ==
    \E i \in 1..(Len(requests) - 1) :
        /\ i <= Len(results) /\ results[i] = "err"
        /\ \E l \in Levels :
              /\ EntriesOf(requests[i], l) # <<>>
              /\ IsPrefix(EntriesOf(requests[i], l), EntriesOf(requests[i + 1], l))
              /\ Len(EntriesOf(requests[i + 1], l)) > Len(EntriesOf(requests[i], l))

(* ---- C4 ---- *)
\* C4: a poll that finds no pending data in any bucket issues no request, and
\* every request issued has at least one stream and no stream without entries.
C4_NoEmptyRequest ==
    [][/\ (\A l \in Levels : Drained[l].to_send = <<>>) => requests' = requests
       /\ \A i \in 1..Len(requests') :
             /\ Len(requests'[i]) >= 1
             /\ \A k \in 1..Len(requests'[i]) : requests'[i][k].entries # <<>>]_vars

\* a request of two streams was sent (three buckets left out), and the engine
\* has since been polled with every bucket empty
C4_Witness ==
    /\ \E i \in 1..Len(requests) : Len(requests[i]) = 2
    /\ Len(results) = Len(requests)
    /\ channel = <<>>
    /\ \A l \in Levels : queues[l].to_send = <<>> /\ queues[l].sending = <<>>

(* ---- C5 ---- *)
\* C5: a request is prepared only when a bucket's pending sequence, as drained,
\* holds a force-flush event, so every request carries at least one such event;
\* events with the flag unset (target "tracing_loki...") alone never cause one.
C5_OnlyForceFlushSends ==
    [][requests' # requests =>
          /\ \E l \in Levels : should_send(Drained[l])
          /\ \A i \in 1..Len(requests') :
                \E k \in 1..Len(requests'[i]) :
                    \E n \in 1..Len(requests'[i][k].entries) :
                        EventOf(requests'[i][k].entries[n]).trigger_send]_vars

\* two events with the flag unset sit routed in a bucket and no bucket holds a
\* force-flush event; the engine runs, nothing is outstanding, no backoff is
\* armed, and no request was made for them
C5_Witness ==
    /\ pc = "run" /\ send_task = "none" /\ ~backoff.armed
    /\ requests = <<>>
    /\ \E l \in Levels : Len(queues[l].to_send) >= 2
    /\ \A l \in Levels : ~should_send(queues[l])

(* ---- C6 ---- *)
\* all four events of the batch were captured and accepted into the channel
BatchAccepted == BatchPos = 4 /\ Len(SelectSeq(accepted, IsEvent)) = nsub
NoFailure == NErr = 0 /\ send_task # "err"
BatchRequest ==
    <<[labels |-> finish(FormattedLabels_new, BatchLevel), entries |-> <<1, 2, 3, 4>>]>>

\* C6: three events with force-flush unset and then one with it set, at one
\* level: while no exchange fails at most one request is issued, a request
\* issued once all four were accepted holds the four entries in order, and once
\* all four are routed and nothing is outstanding exactly one was issued.
C6_OneBatch ==
    (NoFailure /\ BatchAccepted) =>
        /\ Len(requests) <= 1
        /\ requests # <<>> => requests[1] = BatchRequest
        /\ (send_task = "none" /\ \A i \in 1..Len(channel) : ~IsEvent(channel[i]))
              => Len(requests) = 1

C6_Witness ==
    /\ BatchAccepted
    /\ requests = <<BatchRequest>>
    /\ results = <<"ok">>

(* ---- C7 ---- *)
ErrorRequest == <<[labels |-> "{level=\"error\"}", entries |-> <<1>>]>>
SingleError ==
    /\ nsub = 1
    /\ SelectSeq(accepted, IsEvent) = <<LokiEvent(1, "error", TRUE)>>

\* C7: with no base labels, when the only event is one ERROR event with
\* force-flush set and its exchange does not fail, exactly one request is
\* issued: at most one at any time, one stream labelled {level="error"} with the
\* one entry, and one once the poll that routed the event has returned.
C7_SingleError ==
    SingleError =>
        /\ Len(requests) <= 1
        /\ requests # <<>> => requests[1] = ErrorRequest
        /\ (channel = <<>> /\ pc # "spin") => Len(requests) = 1

C7_Witness ==
    /\ SingleError
    /\ requests = <<ErrorRequest>>
    /\ results = <<"ok">>

(* ---- C8 ---- *)
\* C8: a poll that finds the backoff sleep armed and not elapsed prepares no
\* request.
C8_NoSendWhileBackingOff ==
    [][(backoff.armed /\ ~backoff.elapsed) => requests' = requests]_vars

\* the sleep was polled while pending, with a force-flush event routed and no
\* send outstanding
C8_Witness ==
    /\ backoff.armed /\ ~backoff.elapsed /\ backoff.polled
    /\ send_task = "none"
    /\ \E l \in Levels : should_send(queues[l])

(* ---- C9 ---- *)
\* the step handles the first failure of a streak
FirstFailureStep == backoff_count = 0 /\ backoff_count' = 1
\* the entries of the failed request are pending again, in front
FailedRequeued ==
    \A l \in Levels :
        /\ queues'[l].sending = <<>>
        /\ IsPrefix(EntriesOf(requests'[Len(requests')], l), Ids(queues'[l].to_send))

\* C9 as stated: the first failure requeues the entries, arms the backoff sleep
\* at the base delay of 500 ms, and no request is issued before it has elapsed.
C9_Original ==
    [][/\ FirstFailureStep =>
             /\ FailedRequeued
             /\ backoff' = sleep(BaseDelayMs)
             /\ send_task' = "none"
       /\ requests' # requests => ~(backoff.armed /\ ~backoff.elapsed)]_vars

\* C9 as amended: the first failure requeues the entries and arms the backoff
\* sleep with a delay of zero (500 ms is the delay of the second failure in a
\* row); no request is issued in the poll that handles the failure, nor by any
\* poll that finds the sleep not elapsed.
C9_FirstFailure ==
    [][/\ FirstFailureStep =>
             /\ FailedRequeued
             /\ backoff' = sleep(0)
             /\ send_task' = "none"
       /\ (backoff_count = 1 /\ backoff_count' = 2) => backoff' = sleep(BaseDelayMs)
       /\ requests' # requests => ~(backoff.armed /\ ~backoff.elapsed)]_vars

\* the first failure was handled: its entries are pending, the sleep is armed
C9_Witness ==
    /\ backoff_count = 1
    /\ delays = <<0>>
    /\ backoff.armed
    /\ send_task = "none"
    /\ \E l \in Levels : should_send(queues[l])

(* ---- C10 ---- *)
\* C10: over any number of failures in a row the armed delays never decrease
\* and never exceed 600 s.
C10_Monotone ==
    \A i \in 1..Len(delays) :
        /\ delays[i] <= CeilingSecs * 1000
        /\ i > 1 => delays[i - 1] <= delays[i]

(* ---- C11 ---- *)
\* the failed exchanges since the last successful one (all of them if none was)
LastOk ==
    LET oks == {i \in 1..Len(results) : results[i] = "ok"}
    IN  IF oks = {} THEN 0 ELSE CHOOSE i \in oks : \A j \in oks : j <= i
FailuresInARow == Len(results) - LastOk
\* the ids a request carries, over all its streams
IdsOfRequest(req) ==
    UNION {{req[k].entries[n] : n \in 1..Len(req[k].entries)} : k \in 1..Len(req)}
\* the ids the buckets hold, pending or in flight
IdsHeld ==
    UNION {{queues[l].to_send[i].id : i \in 1..Len(queues[l].to_send)}
             \cup {queues[l].sending[i].id : i \in 1..Len(queues[l].sending)}
           : l \in Levels}

\* C11: backoff_count always equals the number of failed sends in a row since
\* the last successful one (0 initially): a success resets it to 0 and each
\* failure adds exactly 1; and a successful completion clears every bucket's
\* in-flight entries: no bucket holds an entry of a request that succeeded.
C11_FailureCounter ==
    /\ backoff_count = FailuresInARow
    /\ \A i \in 1..Len(results) :
          results[i] = "ok" => IdsOfRequest(requests[i]) \cap IdsHeld = {}
    /\ Outstanding = 0 => \A l \in Levels : queues[l].sending = <<>>

\* two failures in a row were counted and the success that followed reset the
\* counter
C11_Witness ==
    /\ results = <<"err", "err", "ok">>
    /\ backoff_count = 0
    /\ \A l \in Levels : queues[l].sending = <<>>
(* ---- C12 ---- *)
\* the step handles a failure whose computed delay is 30 s or more
DropStep == FailureStep /\ backoff_time(backoff_count).drop
\* the diagnostics the step emitted (captured by on_event, accepted or not)
Emitted == nsub' - nsub

BackoffPending == backoff.armed /\ ~backoff.elapsed

\* C13 as stated: the engine has completed only if the draining flag is set, the
\* channel is empty, no send is outstanding and no backoff timer is pending.
C13_Original ==
    pc = "done" =>
        quitting /\ channel = <<>> /\ send_task = "none" /\ ~BackoffPending

\* C13 as amended: the engine completes exactly when, at the end of a poll, the
\* draining flag is set and no send is outstanding: a completed engine has both,
\* and an engine that has the flag set and was not completed by the poll that
\* set it or by a later one has a send outstanding. Neither the backoff timer
\* nor the channel (which may hold the engine's own last diagnostic) is looked at.
C13_Completes ==
    /\ pc = "done" => quitting /\ send_task = "none"
    /\ (pc = "run" /\ quitting) => send_task # "none"

\* the engine completed right after a failure, with the 500 ms sleep it armed
\* still pending
C13_Witness ==
    /\ pc = "done"
    /\ BackoffPending

(* ---- C14 ---- *)
CloseSent == \E i \in 1..Len(accepted) : accepted[i] = CloseItem

\* C14: the engine never completes before the close value was sent or every
\* sender was dropped, and never while a request is outstanding: when it has
\* completed every request issued has got its result; while the draining flag
\* is set and a request is outstanding the engine keeps running.
C14_NoEarlyCompletion ==
    /\ [](pc = "done" => (CloseSent \/ ~senders))
    /\ [](pc = "done" => (Outstanding = 0 /\ send_task = "none"))
    /\ [][(quitting /\ send_task = "pending" /\ pc = "run") => pc' # "done"]_vars

\* shutdown() was called while a request was outstanding; the engine waited
\* for its result and then completed
C14_Witness ==
    /\ pc = "done"
    /\ senders /\ CloseSent
    /\ signalled # <<>> /\ signalled[1].outstanding
    /\ Len(results) = Len(requests)
    /\ Len(results) >= signalled[1].issued
(* ---- C15 ---- *)
\* C15: when the engine has completed after a shutdown signal, every event that
\* was pending in a bucket when shutdown() was called is in a request issued
\* after that call.
C15_FinalFlush ==
    (pc = "done" /\ signalled # <<>>) =>
        \A id \in signalled[1].pending :
            \E k \in (signalled[1].issued + 1)..Len(requests) :
                id \in IdsOfRequest(requests[k])
(* ---- C16 ---- *)
\* the step handles a failed exchange, the last one it handles
HandlesFailure == results' # results /\ results'[Len(results')] = "err"
\* the failed request is the one that was outstanding when shutdown() was called
OutstandingAtSignal ==
    /\ signalled # <<>> /\ signalled[1].outstanding
    /\ Len(results') = signalled[1].issued

\* C16 as stated: when the request that was outstanding during shutdown fails,
\* the engine does not complete yet: it first issues one further request.
C16_Original ==
    [][(HandlesFailure /\ OutstandingAtSignal) => pc' # "done"]_vars

\* C16 as amended: when a request fails while the draining flag is set (or is
\* set in the same poll), the engine completes in the poll that handles the
\* failure and issues no further request: the requeued data is dropped.
C16_NoRetryOnShutdown ==
    [][(HandlesFailure /\ quitting') =>
          /\ pc' = "done"
          /\ Len(requests') = Len(results')]_vars

\* the request outstanding when shutdown() was called failed; the engine
\* completed with its force-flush data put back in the bucket, unsent
C16_Witness ==
    /\ pc = "done"
    /\ signalled # <<>> /\ signalled[1].outstanding
    /\ Len(requests) = signalled[1].issued
    /\ results # <<>> /\ results[Len(results)] = "err"
    /\ Len(results) = Len(requests)
    /\ \E l \in Levels : should_send(queues[l])
(* ---- C17 ---- *)
\* the place of the close value in a sequence of channel items (0 if absent)
ClosePos(items) ==
    IF \E i \in 1..Len(items) : items[i] = CloseItem
    THEN CHOOSE i \in 1..Len(items) : items[i] = CloseItem
    ELSE 0
\* the bucket of the event's level holds the event in the next state
RoutedNext(event) ==
    \E i \in 1..Len(queues'[event.level].to_send \o queues'[event.level].sending) :
        (queues'[event.level].to_send \o queues'[event.level].sending)[i] = event

\* C17: in the poll that processes the close value, every event queued in the
\* channel ahead of it is put into the bucket of its level; and once the
\* draining flag is set, no event accepted before the close value is still in
\* the channel.
C17_EventsBeforeClose ==
    /\ [][(~quitting /\ quitting' /\ ClosePos(channel) > 0) =>
              \A i \in 1..(ClosePos(channel) - 1) : RoutedNext(channel[i])]_vars
    /\ [](quitting =>
              \A i \in 1..Len(channel), j \in 1..Len(accepted) :
                  (accepted[j] = channel[i] /\ IsEvent(channel[i]))
                      => (ClosePos(accepted) > 0 /\ j > ClosePos(accepted)))

\* the close value was processed with a request outstanding, an event accepted
\* before it sits routed in its bucket and one accepted after it is in the channel
C17_Witness ==
    /\ quitting /\ senders /\ pc = "run"
    /\ \E j \in 1..Len(accepted) :
          /\ j < ClosePos(accepted)
          /\ \E i \in 1..Len(queues[accepted[j].level].to_send) :
                queues[accepted[j].level].to_send[i] = accepted[j]
    /\ \E i \in 1..Len(channel) : IsEvent(channel[i])
(* ---- C18 ---- *)
\* the step is one on_event call of the application (a poll that captures a
\* diagnostic also records a result)
SubmitStep == nsub' = nsub + 1 /\ results' = results
Full == Len(channel) >= ChanCap

C20_ClosedChannel ==
    (~senders /\ ~CloseSent) =>
        /\ pc # "spin"
        /\ (quitting /\ send_task = "none") => pc = "done"
Is2xx(outcome) == outcome.kind = "status" /\ outcome.code \in 200..299
\* poll takes the result of a send future whose exchange has ended
TakesResult == send_task \in {"ok", "err"} /\ Len(results') > Len(results)

\* C21: a completed send is a success if and only if the final status of the
\* exchange is 2xx; after any other outcome (another final status, or an
\* error without one) the entries in flight are back at the front of their
\* pending sequences and the failure counter is one higher.
C21_SuccessIff2xx ==
    [][TakesResult =>
         /\ (results'[Len(results) + 1] = "ok") <=> Is2xx(response)
         /\ ~Is2xx(response) =>
               /\ backoff_count' = backoff_count + 1
               /\ \A l \in Levels : IsPrefix(queues[l].sending, queues'[l].to_send)]_vars

(* ---- C22 ---- *)
\* texts joined by commas
RECURSIVE Joined(_)
Joined(texts) ==
    IF texts = <<>> THEN ""
    ELSE IF Len(texts) = 1 THEN texts[1]
    ELSE Joined(SubSeq(texts, 1, Len(texts) - 1)) \o "," \o texts[Len(texts)]
\* the selector of a level for the labels added so far, each written by Write
Selector(pairs, level, Write(_)) ==
    "{" \o Joined([i \in 1..Len(pairs) |-> Write(pairs[i])])
        \o (IF pairs = <<>> THEN "" ELSE ",")
        \o "level=\"" \o level \o "\"}"
WriteRaw(pair) == pair.key \o "=\"" \o pair.value \o "\""
WriteDebug(pair) == pair.key \o "=" \o Debug(pair.value)
\* the application asked for the key "level" and got no label
LevelRefused ==
    /\ "level" \notin labels.seen_keys
    /\ returned.key = "level" => returned.result = ReservedLabelLevel

\* C22 as stated: for every level and every list of added base labels the
\* selector is "{", the labels as key="value" in insertion order separated by
\* commas, level="<name>", "}", the value written as it is; the key "level"
\* is refused.
C22_Original ==
    /\ \A level \in Levels :
          finish(labels.formatted, level) = Selector(added, level, WriteRaw)
    /\ LevelRefused

\* C22 amended: the same, with each value written the way Debug formatting
\* writes a str: between double quotes, and a double quote or backslash
\* inside it preceded by a backslash.
C22_SelectorRendering ==
    /\ \A level \in Levels :
          finish(labels.formatted, level) = Selector(added, level, WriteDebug)
    /\ LevelRefused

\* two labels were added, one of them with a value that needs escaping, and
\* the key "level" was then refused
C22_Witness ==
    /\ Len(added) = 2
    /\ added[1] = [kind |-> "static", key |-> "host", value |-> "mine"]
    /\ added[2].value = "say \"hi\""
    /\ returned.key = "level"
    /\ finish(labels.formatted, "info") = "{host=\"mine\",z_A=\"say \\\"hi\\\"\",level=\"info\"}"

(* ---- C23 ---- *)
\* FormattedLabels::add is called with a key that was added before
DuplicateAdd ==
    /\ returned' # returned
    /\ returned'.call = "FormattedLabels::add"
    /\ returned'.key \in labels.seen_keys

\* C23: add with a key that was already added returns DuplicateLabel for
\* that key whatever the value is, and leaves the formatted string and the
\* set of seen keys as they were before the call.
C23_DuplicateRejected ==
    [][DuplicateAdd =>
         /\ returned'.result = DuplicateLabel(returned'.key)
         /\ labels'.formatted = labels.formatted
         /\ labels'.seen_keys = labels.seen_keys]_vars

\* a key added with one value was added again with the empty value, after a
\* second label: the call returned DuplicateLabel
C23_Witness ==
    /\ Len(added) = 2
    /\ added[1].key = "host" /\ added[1].value = "mine"
    /\ returned = Call("FormattedLabels::add", "host", "", DuplicateLabel("host"))

(* ---- C24 ---- *)
\* the characters of [A-Za-z_] among those the keys are made of
WordChars == {"a", "z", "A", "Z", "_", "l", "e", "v", "s", "L"}
OnlyWordChars(key) == \A i \in 1..Len(key) : Chars(key)[i] \in WordChars
\* the first character of the key that is not of [A-Za-z_]
FirstOther(key) ==
    Chars(key)[CHOOSE i \in 1..Len(key) :
                  /\ Chars(key)[i] \notin WordChars
                  /\ \A j \in 1..(i - 1) : Chars(key)[j] \in WordChars]
\* what ValidatedLabel::new is to return for a key, given whether the empty
\* key is a match
Verdict(key, empty_matches) ==
    IF ~OnlyWordChars(key) THEN InvalidLabelCharacter(key, FirstOther(key))
    ELSE IF key = "level" THEN ReservedLabelLevel
    ELSE IF key = "" /\ ~empty_matches THEN [kind |-> "Err", label |-> key, char |-> ""]
    ELSE Ok(key)
Validated == returned.call = "ValidatedLabel::new"

\* C24 as stated: a key is accepted if and only if it matches [A-Za-z_]+ and
\* is not "level"; a key with another character fails with
\* InvalidLabelCharacter naming the first such character, and "level" fails
\* with ReservedLabelLevel.
C24_Original ==
    Validated =>
        /\ (returned.result.kind = "Ok") <=> (Verdict(returned.key, FALSE).kind = "Ok")
        /\ Verdict(returned.key, FALSE).kind \in {"InvalidLabelCharacter", "ReservedLabelLevel"}
              => returned.result = Verdict(returned.key, FALSE)

\* C24 amended: a key is accepted if and only if it matches [A-Za-z_]* (the
\* empty key included) and is not "level"; the failures are as stated.
C24_KeyValidation ==
    Validated => returned.result = Verdict(returned.key, TRUE)

\* a key whose second character is of two bytes was refused with that
\* character named
C24_Witness ==
    /\ Validated
    /\ returned.key = "Zé"
    /\ returned.result = InvalidLabelCharacter("Zé", "é")

(* ---- C25 ---- *)
\* the keys of one kind among the successful calls on the builder so far
KeysOf(kind) == {added[i].key : i \in {j \in 1..Len(added) : added[j].kind = kind}}
\* no two labels of the builder share a name, and the builder holds exactly
\* the labels of the successful calls
DistinctNames ==
    builder # <<>> =>
        /\ \A i, j \in 1..Len(added) : i # j => added[i].key # added[j].key
        /\ builder[1].labels.seen_keys = KeysOf("static")
        /\ builder[1].dynamic_labels = KeysOf("dynamic")
        /\ KeysOf("static") \cap KeysOf("dynamic") = {}
\* label or dynamic_label is called with a valid key the builder already has
NameTaken ==
    /\ builder # <<>>
    /\ returned' # returned
    /\ returned'.call \in {"Builder::label", "Builder::dynamic_label"}
    /\ returned'.key \in builder[1].labels.seen_keys \cup builder[1].dynamic_labels

\* C25: after any sequence of successful label and dynamic_label calls no two
\* labels share a name (static keys distinct, dynamic keys distinct, no key
\* both static and dynamic), and a call that would break this returns
\* DuplicateLabel, in whichever order the two kinds were added.
C25_DistinctLabelNames ==
    /\ [](DistinctNames)
    /\ [][NameTaken => /\ returned'.result = DuplicateLabel(returned'.key)
                       /\ builder' = <<>>]_vars

\* a builder with a static label and a dynamic label, the dynamic one added
\* last
C25_Witness ==
    /\ builder # <<>>
    /\ builder[1].labels.seen_keys = {"host"}
    /\ builder[1].dynamic_labels = {"z_A"}
    /\ returned = Call("Builder::dynamic_label", "z_A", "", Ok("z_A"))

(* ---- C26 ---- *)
\* C26: encoding a batch of streams and then decoding the result (block
\* decompression, then deserialization) gives the original streams: the same
\* label strings and the same (timestamp, line) entry lists in the same order.
C26_RoundTrip ==
    messages # <<>> =>
        DecodePushRequest(decompress(body)) = messages[Len(messages)]

\* a Buffer that encoded a request before has encoded one of two streams: the
\* body is shorter than the protobuf bytes (it has copy elements) and the
\* snappy vector holds bytes beyond it
C26_Witness ==
    /\ Len(messages) = 2
    /\ Len(messages[2].streams) = 2
    /\ Len(body) < Len(buffer.encoded)
    /\ Len(buffer.snappy) > Len(body)
    /\ DecodePushRequest(decompress(body)).streams[2].entries[1].line = "zazazazazazazaza"

(* ---- C27 ---- *)
\* C27: whenever the engine has returned Pending with a backoff timer armed,
\* a wake-up for that timer is registered (the sleep was polled and its waker
\* is with the timer), so that the retry is issued once the delay has elapsed
\* even if nothing more arrives on the channel.
C27_TimerWakeRegistered ==
    (pc = "run" /\ backoff.armed) => backoff.polled

(* ---- C28 ---- *)
\* a call of poll receives items: the head of the channel is gone
DrainStep == channel # <<>> /\ (channel' = <<>> \/ Head(channel') # Head(channel))
\* the first n items were received and the others are still at the front of
\* the channel, in their order
ReceivedUpTo(n) ==
    /\ IsPrefix(SubSeq(channel, n + 1, Len(channel)), channel')
    /\ \A i \in 1..n : IsEvent(channel[i]) => RoutedNext(channel[i])

\* C28 as stated: every poll cycle drains the channel until it is empty, also
\* while a send is outstanding or a backoff timer is pending: every item that
\* was in the channel has been routed to its bucket, none was discarded.
C28_Original ==
    [][DrainStep => ReceivedUpTo(Len(channel))
                    /\ \A i \in 1..Len(channel), k \in 1..Len(channel') :
                          channel'[k] # channel[i]]_vars

\* C28 amended: a poll cycle drains the channel until poll_recv returns
\* Pending, which is when the channel is empty or the budget of the task is
\* used up, also while a send is outstanding or a backoff timer is pending:
\* every item received has been routed to its bucket, the others are still in
\* the channel in their order, and none was discarded.
C28_DrainsUntilPending ==
    [][DrainStep => \E n \in 1..Len(channel) : ReceivedUpTo(n)]_vars

\* while a send is outstanding an event was routed to a bucket and another
\* one is left in the channel
C28_Witness ==
    /\ send_task = "pending"
    /\ channel # <<>>
    /\ \E l \in Levels :
          /\ queues[l].to_send # <<>>
          /\ queues[l].sending # <<>>
          /\ queues[l].to_send[1].id + 1 = channel[1].id

(* ---- C29 ---- *)
\* the step issues a request that carries the event
SentNext(event) ==
    \E k \in (Len(requests) + 1)..Len(requests') : event.id \in IdsOfRequest(requests'[k])
\* no send is outstanding and no sleep holds the next one back
FlushFree == send_task = "none" /\ ~(backoff.armed /\ ~backoff.elapsed)
\* a call of poll receives the close value with events behind it
CloseWithEventsBehind ==
    /\ DrainStep
    /\ ClosePos(channel) > 0
    /\ ClosePos(channel) < Len(channel)
\* the events behind the close value are routed, and sent where the flush
\* conditions hold
BehindCloseHandled ==
    \A j \in (ClosePos(channel) + 1)..Len(channel) :
        /\ RoutedNext(channel[j]) \/ SentNext(channel[j])
        /\ (channel[j].trigger_send /\ FlushFree) => SentNext(channel[j])

\* C29: receiving the close value sets the draining flag but does not stop
\* the drain: the events behind it in the channel are routed to their buckets
\* in the same cycle and are sent if the flush conditions hold; the draining
\* flag, once set, is never cleared.
C29_CloseDoesNotStopDrain ==
    /\ [][CloseWithEventsBehind => (quitting' /\ BehindCloseHandled)]_vars
    /\ [][quitting => quitting']_vars
(* ---- C30 ---- *)
\* C30: whenever no send is outstanding (send_task is None), the in-flight
\* sequence of every bucket is empty, and prepare_sending has not panicked,
\* after any sequence of successes, failures and long-outage drops.
C30_IdleNothingInFlight ==
    /\ pc # "panic"
    /\ send_task = "none" => \A l \in Levels : queues[l].sending = <<>>

\* after failures, a long-outage drop, a success and a failure again, no send
\* is outstanding and an entry waits to be sent again
C30_Witness ==
    /\ send_task = "none"
    /\ pc = "run"
    /\ Recovered /\ AfterRecovery >= 1
    /\ results[1] = "err" /\ results[Len(results)] = "err"
    /\ \E l \in Levels : queues[l].to_send # <<>>

(* ---- C31 ---- *)
\* C31: when a call of poll prepares a send, the new request carries, for every
\* bucket, the whole pending sequence the bucket had at that moment (the events
\* routed by the drain included), also for a bucket holding no force-flush
\* event, and has one stream for each bucket whose pending was not empty; while
\* the request is outstanding every bucket's pending is empty, its in_flight is
\* what its pending was, and the request's streams are the non-empty in_flight
\* sequences.
NewRequest == requests'[Len(requests')]
C31_WholePendingSent ==
    [][Len(requests') = Len(requests) + 1 =>
         /\ \A l \in Levels : EntriesOf(NewRequest, l) = Ids(Drained[l].to_send)
         /\ Len(NewRequest) = Cardinality({l \in Levels : Drained[l].to_send # <<>>})
         /\ send_task' = "pending" =>
               /\ \A l \in Levels : /\ queues'[l].to_send = <<>>
                                    /\ queues'[l].sending = Drained[l].to_send
               /\ NewRequest = Streams(queues')]_vars

\* a request is outstanding with two streams, one of them of a bucket that
\* holds no force-flush event
C31_Witness ==
    /\ send_task = "pending"
    /\ Len(LastRequest) = 2
    /\ \E l \in Levels : queues[l].sending # <<>> /\ ~should_send(prepare_sending(queues[l]))

(* ---- C32 ---- *)
\* what a bucket holds, pending and in flight
HeldAt(l) == queues[l].to_send \o queues[l].sending
\* the number of places, over all buckets, that hold an event
Places == Cardinality(UNION {{<<l, i>> : i \in 1..Len(HeldAt(l))} : l \in Levels})
IdsInChannel == {channel[i].id : i \in 1..Len(channel)} \ {CloseItem.id}
\* the failures in a row right before exchange n
StreakBefore(n) ==
    n - 1 - (CHOOSE j \in 0..(n - 1) :
                /\ j > 0 => results[j] = "ok"
                /\ \A k \in (j + 1)..(n - 1) : results[k] = "err")
\* the counts of failures in a row at which the next failure drops
DropCounts == {k \in 0..(MaxStreak + 1) : backoff_time(k).drop}
\* the events of the requests that were answered with success
Acknowledged ==
    UNION {IdsOfRequest(requests[n]) : n \in {k \in 1..Len(results) : results[k] = "ok"}}
\* the events in flight at a failure that dropped the entries in flight
DroppedEntries ==
    UNION {IdsOfRequest(requests[n]) :
              n \in {k \in 1..Len(results) :
                        results[k] = "err" /\ StreakBefore(k) \in DropCounts}}

\* C32: no event is held at two places; a bucket holds only events of its own
\* level; every accepted event is in exactly one of four conditions: still in
\* the channel, held by a bucket (pending or in flight), acknowledged, or
\* dropped at a long-outage failure; and every entry of the stream of a level
\* in the newest request, hence in every request, was submitted at that level.
C32_OneBucketOwnLevel ==
    /\ Places = Cardinality(IdsHeld)
    /\ \A l \in Levels : \A i \in 1..Len(HeldAt(l)) : HeldAt(l)[i].level = l
    /\ \E parts \in {<<IdsInChannel, IdsHeld, Acknowledged, DroppedEntries>>} :
          /\ \A a, b \in 1..4 : a # b => parts[a] \cap parts[b] = {}
          /\ parts[1] \cup parts[2] \cup parts[3] \cup parts[4]
                = {accepted[j].id : j \in 1..Len(accepted)} \ {CloseItem.id}
    /\ requests # <<>> =>
          \A l \in Levels : \A k \in 1..Len(EntriesOf(LastRequest, l)) :
              EventOf(EntriesOf(LastRequest, l)[k]).level = l

\* after a drop and a success, an INFO event and an ERROR event are in flight
\* in their buckets
C32_Witness ==
    /\ DroppedEntries # {} /\ Acknowledged # {}
    /\ queues["info"].sending # <<>>
    /\ queues["error"].sending # <<>>

(* ---- C33 ---- *)
\* everything the buckets hold, pending and in flight, bucket after bucket
AllHeld(qs) ==
    LET RECURSIVE Upto(_)
        Upto(i) == IF i = 0 THEN <<>>
                   ELSE Upto(i - 1) \o qs[LevelSeq[i]].to_send \o qs[LevelSeq[i]].sending
    IN  Upto(Len(LevelSeq))
\* a sequence as a multiset: each element with the number of its occurrences
BagOf(seq) ==
    [x \in {seq[i] : i \in 1..Len(seq)} |-> Cardinality({i \in 1..Len(seq) : seq[i] = x})]
\* the step handles exactly one completed exchange, a failed one
OneFailureStep == Len(results') = Len(results) + 1 /\ results'[Len(results')] = "err"

\* C33: when a poll handles a failed send whose computed delay is below 30 s,
\* the multiset of the events held by the buckets, pending and in flight, is
\* after the step what it was when the failure was handled (the events the
\* same poll routed from the channel included): no event is discarded.
C33_NothingDiscarded ==
    [][(OneFailureStep /\ ~backoff_time(backoff_count).drop) =>
           BagOf(AllHeld(queues')) = BagOf(AllHeld(Drained))]_vars

\* a failure below the threshold was handled: the failed entries are back in
\* front of an event that was pending behind them
C33_Witness ==
    /\ send_task = "none" /\ backoff_count >= 1
    /\ ~backoff_time(backoff_count - 1).drop
    /\ results # <<>> /\ results[Len(results)] = "err"
    /\ \E l \in Levels :
          /\ EntriesOf(LastRequest, l) # <<>>
          /\ IsPrefix(EntriesOf(LastRequest, l), Ids(queues[l].to_send))
          /\ Len(queues[l].to_send) > Len(EntriesOf(LastRequest, l))

(* ---- C34 ---- *)
\* the step handles the success of the outstanding request
SuccessStep == send_task = "ok" /\ results' # results
\* the last exchange the step handled was a failed one
EndsInFailure == results' # results /\ results'[Len(results')] = "err"

\* C34: when a poll handles a successful completion and some bucket's pending
\* (the events the same poll routed included) holds a force-flush event, the
\* same poll issues the next request; and a poll that handles a failed
\* completion issues no request after it: the failed request is the last one,
\* and no send is outstanding when the poll returns.
C34_NextSendSameCycle ==
    [][/\ (SuccessStep /\ \E l \in Levels : should_send(Drained[l])) =>
              Len(requests') = Len(requests) + 1
       /\ (FailureStep => requests' = requests)
       /\ (EndsInFailure => (send_task' = "none" /\ Len(requests') = Len(results')))]_vars

\* the poll that handled a success has issued the next request, made only of
\* events that were not in the acknowledged one
C34_Witness ==
    /\ results # <<>> /\ results[Len(results)] = "ok"
    /\ send_task = "pending" /\ response = NoResponse
    /\ Len(requests) = Len(results) + 1
    /\ IdsOfRequest(LastRequest) \cap IdsOfRequest(requests[Len(results)]) = {}
    /\ \E l \in Levels : should_send(prepare_sending(queues[l]))

(* ---- C35 ---- *)
\* the server answers the outstanding exchange with a redirect of this status
RedirectStep(status) ==
    /\ send_task = "pending"
    /\ response' # response
    /\ response'.kind \in {"following", "redirect", "toomany"}
    /\ response'.code = status
Followed == send_task' = "pending" /\ response'.kind = "following"
Refused == send_task' = "err" /\ response'.kind = "redirect"
\* poll handles the failure of an exchange that ended at a refused redirect
RefusedHandled == FailureStep /\ response.kind = "redirect"
\* the final response arrives after at least one followed redirect
FinalAfterRedirect ==
    send_task = "pending" /\ response.kind = "following" /\ response'.kind = "status"

\* C35 as stated: a 302 or 303 redirect is never followed and makes the send
\* fail (entries requeued, failure counter incremented); a 301, 307 or 308
\* redirect is followed, and the outcome is that of the final response.
C35_Original ==
    [][/\ \A status \in {302, 303} : RedirectStep(status) => Refused
       /\ RefusedHandled => (backoff_count' = backoff_count + 1 /\ Requeued)
       /\ \A status \in {301, 307, 308} : RedirectStep(status) => Followed
       /\ FinalAfterRedirect => send_task' = error_for_status(response'.code)]_vars

\* C35 as amended: a 302 or 303 redirect is never followed and makes the send
\* fail, which increments the failure counter and, below the long-outage
\* threshold, requeues the entries; a 301, 307 or 308 redirect is followed
\* while the exchange has followed fewer than ten redirects, and makes the
\* send fail after that; the outcome after followed redirects is that of the
\* final response.
C35_RedirectPolicy ==
    [][/\ \A status \in {302, 303} : RedirectStep(status) => Refused
       /\ RefusedHandled =>
             /\ backoff_count' = backoff_count + 1
             /\ ~backoff_time(backoff_count).drop => Requeued
       /\ \A status \in {301, 307, 308} :
             RedirectStep(status) =>
                 IF response.hops < RedirectLimit
                 THEN Followed /\ response'.hops = response.hops + 1
                 ELSE send_task' = "err" /\ response'.kind = "toomany"
       /\ FinalAfterRedirect => send_task' = error_for_status(response'.code)]_vars

\* after a send that failed, an exchange went through ten redirects and ended
\* with a final 200
C35_Witness ==
    /\ send_task = "ok"
    /\ response = [Status(200) EXCEPT !.hops = RedirectLimit]
    /\ NFail >= 1

(* ---- C36 ---- *)
\* a request was issued and its result has not been handled yet
RequestOutstanding == send_task \in {"pending", "ok", "err"}

\* the step arms a timer: none was armed, or the armed one is another sleep
TimerArmed ==
    /\ backoff'.armed
    /\ \/ ~backoff.armed
       \/ backoff'.delay # backoff.delay
       \/ backoff.polled /\ ~backoff'.polled

\* C36: whenever an HTTP request is outstanding no backoff timer is armed; a
\* poll issues a request only if no timer is armed or the armed one has
\* elapsed; and a timer is armed only by a poll that handles a failed
\* completion.
C36_NoTimerWhileSending ==
    /\ [](RequestOutstanding => ~backoff.armed)
    /\ [][Len(requests') > Len(requests) => (backoff.armed => backoff.elapsed)]_vars
    /\ [][TimerArmed => EndsInFailure]_vars

\* after a failure the timer elapsed and was cleared by the poll that issued
\* the retry, which is outstanding
C36_Witness ==
    /\ send_task = "pending" /\ ~backoff.armed
    /\ results # <<>> /\ results[Len(results)] = "err"
    /\ delays # <<>> /\ delays[Len(delays)] > 0

(* ---- C37 ---- *)
\* C37: no entry of a request that was answered with success is part of a later
\* request; and the poll that handles a success leaves every bucket holding
\* exactly what was pending in it (the events the same poll routed included),
\* in the same order, pending or in flight for the next request: the
\* acknowledged entries and only they are removed.
C37_AcknowledgedNeverResent ==
    /\ [](\A i \in 1..Len(results) : \A j \in (i + 1)..Len(requests) :
             results[i] = "ok" =>
                 IdsOfRequest(requests[i]) \cap IdsOfRequest(requests[j]) = {})
    /\ [][SuccessStep =>
             \A l \in Levels :
                 queues'[l].to_send \o queues'[l].sending = Drained[l].to_send]_vars

\* a request was acknowledged while an event was pending behind it, and that
\* event went out alone in the next request
C37_Witness ==
    /\ Len(requests) >= 2 /\ results # <<>> /\ results[Len(requests) - 1] = "ok"
    /\ send_task = "pending"
    /\ \E l \in Levels :
          /\ EntriesOf(requests[Len(requests) - 1], l) # <<>>
          /\ Len(EntriesOf(LastRequest, l)) = 1
          /\ Ids(queues[l].sending) = EntriesOf(LastRequest, l)

(* ---- C38 ---- *)
\* the events of a level among the items received, in the order received
ReceivedAt(l) == LET Mine(item) == item.level = l IN SelectSeq(channel, Mine)
\* a poll with a request outstanding that stays outstanding: all it does to
\* the buckets is to route what it received
RoutingOnlyStep == send_task = "pending" /\ channel # <<>> /\ channel' = <<>>

\* C38: routing the received events appends each to the end of the pending
\* sequence of the bucket of its level, in the order received, and leaves the
\* in_flight sequence of every bucket and the pending sequences of the other
\* buckets as they were; a poll that only routes, with a request outstanding,
\* changes nothing else: the failure counter, the outstanding send and the
\* requests issued stay as they are.
C38_RoutingFrame ==
    /\ [](\A l \in Levels :
             /\ Drained[l].sending = queues[l].sending
             /\ Drained[l].to_send = queues[l].to_send \o ReceivedAt(l)
             /\ Drained[l].encoded_labels = queues[l].encoded_labels)
    /\ [][RoutingOnlyStep =>
             /\ queues' = Drained
             /\ UNCHANGED <<backoff_count, backoff, send_task, requests, results>>]_vars

\* during a send, two events were routed behind each other into the bucket
\* whose earlier entry is in flight
C38_Witness ==
    /\ send_task = "pending"
    /\ \E l \in Levels :
          /\ queues[l].sending # <<>>
          /\ Len(queues[l].to_send) = 2
          /\ queues[l].to_send[1].id < queues[l].to_send[2].id
          /\ Ids(queues[l].sending) = EntriesOf(LastRequest, l)

(* ---- C39 ---- *)
ValidName(key) == HeaderName_from_bytes(key) # <<>>
ValidValue(value) == HeaderValue_from_str(value) # <<>>
\* header names are the same whatever the case of their letters
SameName(a, b) == HeaderName_from_bytes(a) = HeaderName_from_bytes(b)
\* an earlier http_header call on this builder added a header of that name
AddedEarlier(key) ==
    \E i \in 1..Len(added) : added[i].kind = "header" /\ SameName(added[i].key, key)
\* the step is a call of http_header with this key and value
HeaderCall(key, value) ==
    /\ builder # <<>>
    /\ returned' = Call("Builder::http_header", key, value, returned'.result)
    /\ returned'.call = "Builder::http_header"
    /\ added' # added \/ builder' = <<>>

\* C39 as stated: a call of http_header with a valid name and value fails with
\* DuplicateHttpHeader if and only if an earlier http_header call on the same
\* builder added a header of that name; an invalid name fails with
\* InvalidHttpHeaderName and an invalid value with InvalidHttpHeaderValue.
C39_Original ==
    [][\A key \in HeaderNames, value \in HeaderValues :
          HeaderCall(key, value) =>
              /\ (ValidName(key) /\ ValidValue(value)) =>
                    (returned'.result = DuplicateHttpHeader(key) <=> AddedEarlier(key))
              /\ (~ValidName(key) /\ ValidValue(value)) =>
                    returned'.result = InvalidHttpHeaderName(key)
              /\ (ValidName(key) /\ ~ValidValue(value)) =>
                    returned'.result = InvalidHttpHeaderValue(key)
              /\ (~ValidName(key) /\ ~ValidValue(value)) =>
                    returned'.result \in {InvalidHttpHeaderName(key),
                                          InvalidHttpHeaderValue(key)}]_vars

\* C39 as amended: a call of http_header with a valid name and value fails with
\* DuplicateHttpHeader if and only if the name is Content-Type, which builder()
\* has set, or an earlier http_header call on the same builder added a header
\* of that name, names compared without regard to case; otherwise it succeeds
\* and adds the header; an invalid name fails with InvalidHttpHeaderName,
\* whatever the value, and an invalid value with a valid name fails with
\* InvalidHttpHeaderValue; a failed call gives no builder back.
C39_HeaderErrors ==
    [][\A key \in HeaderNames, value \in HeaderValues :
          HeaderCall(key, value) =>
              /\ returned'.result =
                    IF ~ValidName(key) THEN InvalidHttpHeaderName(key)
                    ELSE IF ~ValidValue(value) THEN InvalidHttpHeaderValue(key)
                    ELSE IF SameName(key, "content-type") \/ AddedEarlier(key)
                    THEN DuplicateHttpHeader(key)
                    ELSE Ok(key)
              /\ returned'.result = Ok(key) <=> builder' # <<>>
              /\ builder' # <<>> =>
                    builder'[1].http_headers =
                        builder[1].http_headers
                            \cup {<<HeaderName_from_bytes(key)[1], value>>}]_vars

\* a call with a name that an earlier call added in other letters failed as a
\* duplicate
C39_Witness ==
    /\ returned = Call("Builder::http_header", "X-A", "v w", DuplicateHttpHeader("X-A"))
    /\ builder = <<>>

(* ---- C40 ---- *)
\* C40: the bytes Buffer::encode returns for a message are those a fresh
\* Buffer returns for it, whatever the Buffer encoded before: the protobuf
\* bytes kept in the Buffer are those of this message alone, and the returned
\* slice ends where the compressed data ends, with no byte of an earlier
\* payload in it.
C40_EncodeIndependent ==
    messages # <<>> =>
        \E fresh \in {Buffer_encode(Buffer_new, messages[Len(messages)])} :
            /\ body = fresh.body
            /\ buffer.encoded = fresh.buffer.encoded

\* after a longer message the Buffer encoded a shorter one: behind the bytes
\* returned, the snappy vector still holds bytes of the earlier payload
C40_Witness ==
    /\ Len(messages) = 2
    /\ Len(EncodePushRequest(messages[1])) > Len(EncodePushRequest(messages[2]))
    /\ \E i \in (Len(body) + 1)..Len(buffer.snappy) : buffer.snappy[i] # 0
    /\ buffer.snappy # Buffer_encode(Buffer_new, messages[2]).buffer.snappy
====
